---- MODULE Spec2Model ----
(***************************************************************************)
(* open-doc-translator: change tracking and translation orchestration.     *)
(*                                                                         *)
(* Ten specifications over one set of variables:                           *)
(*   SpecClassify  FileManager.determineFileStatus applied to drawn inputs *)
(*   SpecBatch     LLMManager.translateBatch, one run, step by step        *)
(*   Spec          TranslationService: two concurrently invoked IPC calls  *)
(*                 (translateSingleFile / batchTranslateFiles) working on  *)
(*                 the state file of the working branch                    *)
(*   SpecStore     FileManager on the state files of several working       *)
(*                 branches: upserts, one call after the other, with       *)
(*                 file-system faults and changes at the upstream branch   *)
(*   SpecResolve   FileManager.getProjectFileInfos on the state file of    *)
(*                 one working branch, with file-system and git faults     *)
(*   SpecNotebook  LLMManager.translateFile on one notebook, cell by cell  *)
(*   SpecMarkdown  LLMManager.translateFile on one text document           *)
(*   SpecBatchLive translateBatch with any stored concurrency, under       *)
(*                 fairness of the event loop                              *)
(*   SpecTree      FileManager.getFileTree / buildFileTree and the status  *)
(*                 filter of the FileTree component                        *)
(*   SpecSelection TranslationService: selectProject, the branch setters   *)
(*                 and fetchUpstream invoked while a translation runs      *)
(* A specification keeps the variables of the others at their idle values. *)
(***************************************************************************)
EXTENDS Integers, Sequences, FiniteSets, TLC

VARIABLES
  clsSource,      \* determineFileStatus: argument sourceHash
  clsRecorded,    \* determineFileStatus: argument recordedHash (or Undefined)
  clsStatus,      \* determineFileStatus: returned status ("unset" before the call)
  stateFile,      \* <branch>-translation_state.json: [exists, map]
  state0,         \* history: the mapping the state file held initially
  ops,            \* the IPC invocations of TranslationService, one record each
  tasks,          \* translateBatch: argument tasks
  concurrency,    \* translateBatch: this.settings.concurrency
  i,              \* translateBatch: loop variable i (0-based start of the wave)
  next,           \* translateBatch: 1-based index of the next task batch.map starts
  taskState,      \* per task: "pending", "running" or "done"
  calls,          \* per task: backend requests (client.post) in flight
  threw,          \* per task: translateMarkdown / translateJupyterNotebook threw
  completedCount, \* translateBatch: completedCount
  batchResults,   \* per task: the value its promise of batchPromises resolved to
  results,        \* translateBatch: results
  progress,       \* the onProgress invocations so far, in order
  progressDone,   \* history: per onProgress invocation, the tasks done at that moment
  pc,             \* translateBatch: position of the scheduler
  files,          \* the state files of the project directory, by file name
  writers,        \* history: per state file, the branch whose upsert wrote it last
  sourceHashes,   \* per path, its blob hash at the upstream branch
  currentWorkingBranch, \* TranslationService.currentWorkingBranch
  call,           \* the FileManager call in progress or finished last
  nbContent,      \* translateFile: argument content of the notebook
  nbCalls,        \* per cell of the notebook: its request and how it was answered
  nbResult,       \* translateFile: the TranslationResult returned
  nbPc,           \* translateFile: position in translateJupyterNotebook
  trFileInfos,    \* getFileTree: the FileInfo list getProjectFileInfos resolved
  trFilters,      \* getFileTree: argument filters
  trK,            \* buildFileTree: number of file infos the loop has added
  nodeMap,        \* buildFileTree: nodeMap, path -> node
  tree,           \* buildFileTree: tree, the root nodes (as paths into nodeMap)
  statusFilter,   \* FileTree component: statusFilter
  filteredFileTree, \* FileTree component: filteredFileTree, [roots, nodes]
  trPc,           \* getFileTree: position
  service,        \* TranslationService: currentProjectId, current*Branch
  heads,          \* per project, the branch its repository has checked out
  refs,           \* per project and upstream branch, the version of the file there
  job,            \* the translateSingleFile / batchTranslateFiles call in flight
  sel,            \* the selectProject / switchWorkingBranch call in flight
  mdTask,         \* translateFile: arguments filePath and content
  mdAnswer,       \* translateMarkdown: what client.post settled with
  mdResult,       \* translateFile: the TranslationResult returned
  mdPc            \* translateFile: position in translateMarkdown

classifyVars == <<clsSource, clsRecorded, clsStatus>>
serviceVars == <<stateFile, state0, ops>>
batchVars == <<tasks, concurrency, i, next, taskState, calls, threw, completedCount,
               batchResults, results, progress, progressDone, pc>>
storeVars == <<files, writers, sourceHashes, currentWorkingBranch, call>>
notebookVars == <<nbContent, nbCalls, nbResult, nbPc>>
treeVars == <<trFileInfos, trFilters, trK, nodeMap, tree, statusFilter,
              filteredFileTree, trPc>>
selectionVars == <<service, heads, refs, job, sel>>
markdownVars == <<mdTask, mdAnswer, mdResult, mdPc>>
vars == <<clsSource, clsRecorded, clsStatus, stateFile, state0, ops,
          tasks, concurrency, i, next, taskState, calls, threw, completedCount,
          batchResults, results, progress, progressDone, pc,
          files, writers, sourceHashes, currentWorkingBranch, call,
          nbContent, nbCalls, nbResult, nbPc,
          trFileInfos, trFilters, trK, nodeMap, tree, statusFilter,
          filteredFileTree, trPc,
          service, heads, refs, job, sel,
          mdTask, mdAnswer, mdResult, mdPc>>

(***************************************************************************)
(* Values                                                                  *)
(***************************************************************************)
\* JavaScript's undefined: an absent recordedHash, an absent state entry.
Undefined == "undefined"

\* FileStatus enum
UNTRANSLATED == "untranslated"
OUTDATED == "outdated"
UP_TO_DATE == "up_to_date"

\* Hash strings the classifier is applied to: the empty string, a blob hash,
\* the same hash in another case and with surrounding blanks, other hashes.
HashPool == << "", "a1b2c3", "A1B2C3", "a1b2c3 ", " a1b2c3", "d4e5f6", "0",
               "false", "null", "e7f8a9", "0000", "ffff" >>
NumHashes == 8
Hashes == { HashPool[n] : n \in 1..NumHashes }

(***************************************************************************)
(* FileManager.determineFileStatus                                         *)
(***************************************************************************)
\* JavaScript truthiness of a string-or-undefined value: !x
Falsy(x) == x = Undefined \/ x = ""

determineFileStatus(sourceHash, recordedHash) ==
  IF Falsy(recordedHash) THEN UNTRANSLATED
  ELSE IF sourceHash # recordedHash THEN OUTDATED
  ELSE UP_TO_DATE

ClassifyIdle == clsSource = "" /\ clsRecorded = Undefined /\ clsStatus = "unset"

ClassifyInit ==
  /\ clsSource \in Hashes
  /\ clsRecorded \in Hashes \cup {Undefined}
  /\ clsStatus = "unset"

Classify ==
  /\ clsStatus = "unset"
  /\ clsStatus' = determineFileStatus(clsSource, clsRecorded)
  /\ UNCHANGED <<clsSource, clsRecorded>>
  /\ UNCHANGED <<serviceVars, batchVars, storeVars, notebookVars, treeVars, selectionVars, markdownVars>>

(***************************************************************************)
(* The repository as the service sees it                                   *)
(***************************************************************************)
\* Candidate paths of the project; the first NumPaths of them are tracked.
PathPool == << "docs/a.md", "docs/b.md", "docs/c.md" >>
NumPaths == 2
Paths == { PathPool[n] : n \in 1..NumPaths }

\* git rev-parse <upstream>:<path>, the blob hash of the path at the upstream branch
UpstreamHash(filePath) ==
  CASE filePath = "docs/a.md" -> "a1b2c3"
    [] filePath = "docs/b.md" -> "d4e5f6"
    [] OTHER -> "e7f8a9"

\* the blob hash an earlier version of a path had when it was last translated
StaleHash == "0000"

\* The IPC invocations that may be in progress at the same time
Ops == {1, 2}

\* Sizes of the selection handed to batchTranslateFiles: Array.from(selectedFiles),
\* one file or two
SelectionSizes == {1, 2}

\* sequences of distinct elements of S with a length in sizes
DistinctSeqs(S, sizes) ==
  UNION { { s \in [1..m -> S] : \A a, b \in 1..m : a # b => s[a] # s[b] } : m \in sizes }

(***************************************************************************)
(* GitManager.readTranslationState / writeTranslationState                 *)
(***************************************************************************)
\* TranslationState: path -> source_hash of its entry, Undefined without entry
EmptyState == [p \in Paths |-> Undefined]

\* try { JSON.parse(readFile) } catch { return {} }
readTranslationState(file) == IF file.exists THEN file.map ELSE EmptyState

\* fs.writeFile(stateFilePath, JSON.stringify(state))
writeTranslationState(state) == [exists |-> TRUE, map |-> state]

(***************************************************************************)
(* FileManager.updateTranslationState / batchUpdateTranslationState: the   *)
(* assignments made to the mapping in memory between the read and the write*)
(***************************************************************************)
\* a bug: an entry that exists is kept as it is
updateTranslationStateKeepsEntry(translationState, filePath, sourceHash) ==
  IF translationState[filePath] # Undefined THEN translationState
  ELSE [translationState EXCEPT ![filePath] = sourceHash]

updateTranslationState(translationState, filePath, sourceHash) ==
  [translationState EXCEPT ![filePath] = sourceHash]

RECURSIVE ApplyUpdates(_, _)
ApplyUpdates(translationState, updates) ==
  IF updates = <<>> THEN translationState
  ELSE ApplyUpdates(updateTranslationState(translationState, updates[1].filePath,
                                           updates[1].sourceHash),
                    Tail(updates))

\* a bug: only the first entry of the batch reaches the mapping that is written
batchUpdateFirstOnly(translationState, updates) ==
  IF updates = <<>> THEN translationState
  ELSE updateTranslationState(translationState, updates[1].filePath, updates[1].sourceHash)

batchUpdateTranslationState(translationState, updates) ==
  ApplyUpdates(translationState, updates)

\* the status a resolution (getFileInfo) reports for a path
StatusOf(filePath, translationState) ==
  determineFileStatus(UpstreamHash(filePath), translationState[filePath])

(***************************************************************************)
(* TranslationService: translateSingleFile and batchTranslateFiles         *)
(***************************************************************************)
IdleOp == [pc |-> "idle", kind |-> "none", filePaths |-> <<>>, k |-> 0,
           tasks |-> <<>>, results |-> <<>>, updates |-> <<>>,
           translationState |-> EmptyState, emitted |-> "none"]

\* a bug: every result is committed, failed ones too
CommittableAlways(result) == TRUE

\* if (result.success) { writeTranslationFile ...; update state }
Committable(result) == result.success

\* a bug: the hash of the first task is recorded, whatever the path of the result
TaskHashOfFirst(taskList, filePath) == taskList[1].sourceHash

\* tasks.find(t => t.filePath === result.filePath).sourceHash
TaskHashOf(taskList, filePath) ==
  LET n == CHOOSE m \in 1..Len(taskList) :
             /\ taskList[m].filePath = filePath
             /\ \A l \in 1..(m - 1) : taskList[l].filePath # filePath
  IN taskList[n].sourceHash

HasTask(taskList, filePath) == \E m \in 1..Len(taskList) : taskList[m].filePath = filePath

ServiceIdle ==
  /\ stateFile = [exists |-> FALSE, map |-> EmptyState]
  /\ state0 = EmptyState
  /\ ops = [o \in Ops |-> IdleOp]

\* The state file is missing, or holds for each path no entry, the hash of an
\* earlier version, or the hash of the current version.
ServiceInit ==
  /\ \E m \in [Paths -> {0, 1, 2}] :
       LET map0 == [p \in Paths |-> CASE m[p] = 0 -> Undefined
                                      [] m[p] = 1 -> StaleHash
                                      [] OTHER -> UpstreamHash(p)]
       IN /\ stateFile \in { [exists |-> TRUE, map |-> map0] } \cup
                            { [exists |-> FALSE, map |-> EmptyState] }
          /\ state0 = readTranslationState(stateFile)
  /\ ops = [o \in Ops |-> IdleOp]

\* invocations are numbered in the order they arrive
Arrives(o) == ops[o].pc = "idle" /\ \A o2 \in Ops : o2 < o => ops[o2].pc # "idle"

\* the event emitted right before return results: 'file-translated' (with the
\* success of the result) or 'batch-translation-completed'
CompletionEvent(op) ==
  IF op.kind = "batch" THEN "batch-translation-completed" ELSE "file-translated"

\* the operation emits its event and returns its results: the locals of the
\* call are gone, the record keeps what it returned and what it committed
Returned(op) == [op EXCEPT !.pc = "returned", !.k = 0, !.translationState = EmptyState,
                           !.emitted = CompletionEvent(op)]

\* the operation throws (emit('error'); throw error): nothing of it remains
Threw(op) == [IdleOp EXCEPT !.pc = "threw", !.kind = op.kind, !.filePaths = op.filePaths,
                            !.emitted = "error"]

\* ---- translateSingleFile ------------------------------------------------
translateSingleFile(o, filePath) ==
  /\ Arrives(o)
  /\ ops' = [ops EXCEPT ![o] = [IdleOp EXCEPT !.pc = "getFileContent", !.kind = "single",
                                               !.filePaths = <<filePath>>, !.k = 1]]
  /\ UNCHANGED <<stateFile, state0>>
  /\ UNCHANGED <<classifyVars, batchVars, storeVars, notebookVars, treeVars, selectionVars, markdownVars>>

\* const content = await gitManager.getFileContent(...), which may throw
SingleGetFileContent(o) ==
  /\ ops[o].kind = "single" /\ ops[o].pc = "getFileContent"
  /\ \E ok \in BOOLEAN :
       ops' = [ops EXCEPT ![o] = IF ok THEN [ops[o] EXCEPT !.pc = "getFileHash"]
                                 ELSE Threw(ops[o])]
  /\ UNCHANGED <<stateFile, state0>>
  /\ UNCHANGED <<classifyVars, batchVars, storeVars, notebookVars, treeVars, selectionVars, markdownVars>>

\* const sourceHash = await gitManager.getFileHash(...); null makes it throw
SingleGetFileHash(o) ==
  /\ ops[o].kind = "single" /\ ops[o].pc = "getFileHash"
  /\ \E sourceHash \in {UpstreamHash(ops[o].filePaths[1]), Undefined} :
       ops' = [ops EXCEPT ![o] =
                 IF Falsy(sourceHash) THEN Threw(ops[o])
                 ELSE [ops[o] EXCEPT !.pc = "translateFile",
                                     !.tasks = << [filePath |-> ops[o].filePaths[1],
                                                   sourceHash |-> sourceHash] >>]]
  /\ UNCHANGED <<stateFile, state0>>
  /\ UNCHANGED <<classifyVars, batchVars, storeVars, notebookVars, treeVars, selectionVars, markdownVars>>

\* const result = await llmManager.translateFile(...): never throws, success or not;
\* a failed result is returned as it is
SingleTranslateFile(o) ==
  /\ ops[o].kind = "single" /\ ops[o].pc = "translateFile"
  /\ \E success \in BOOLEAN :
       LET result == [filePath |-> ops[o].filePaths[1], success |-> success]
           op == [ops[o] EXCEPT !.results = <<result>>]
       IN ops' = [ops EXCEPT ![o] = IF Committable(result)
                                    THEN [op EXCEPT !.pc = "writeTranslationFile"]
                                    ELSE Returned(op)]
  /\ UNCHANGED <<stateFile, state0>>
  /\ UNCHANGED <<classifyVars, batchVars, storeVars, notebookVars, treeVars, selectionVars, markdownVars>>

\* await gitManager.writeTranslationFile(...), which may throw
SingleWriteTranslationFile(o) ==
  /\ ops[o].kind = "single" /\ ops[o].pc = "writeTranslationFile"
  /\ \E ok \in BOOLEAN :
       ops' = [ops EXCEPT ![o] =
                 IF ok THEN [ops[o] EXCEPT !.pc = "updateTranslationState",
                                           !.updates = << ops[o].tasks[1] >>]
                 ELSE Threw(ops[o])]
  /\ UNCHANGED <<stateFile, state0>>
  /\ UNCHANGED <<classifyVars, batchVars, storeVars, notebookVars, treeVars, selectionVars, markdownVars>>

\* updateTranslationState: await readTranslationState, then the assignment in memory
SingleUpdateTranslationState(o) ==
  /\ ops[o].kind = "single" /\ ops[o].pc = "updateTranslationState"
  /\ ops' = [ops EXCEPT ![o].translationState =
                           updateTranslationState(readTranslationState(stateFile),
                                                  ops[o].updates[1].filePath,
                                                  ops[o].updates[1].sourceHash),
                        ![o].pc = "writeTranslationState"]
  /\ UNCHANGED <<stateFile, state0>>
  /\ UNCHANGED <<classifyVars, batchVars, storeVars, notebookVars, treeVars, selectionVars, markdownVars>>

\* ---- batchTranslateFiles --------------------------------------------------
batchTranslateFiles(o, filePaths) ==
  /\ Arrives(o)
  /\ ops' = [ops EXCEPT ![o] = [IdleOp EXCEPT !.pc = "getFileContent", !.kind = "batch",
                                               !.filePaths = filePaths, !.k = 1]]
  /\ UNCHANGED <<stateFile, state0>>
  /\ UNCHANGED <<classifyVars, batchVars, storeVars, notebookVars, treeVars, selectionVars, markdownVars>>

\* for (const filePath of filePaths): content = await getFileContent(...), may throw
BatchGetFileContent(o) ==
  /\ ops[o].kind = "batch" /\ ops[o].pc = "getFileContent"
  /\ \E ok \in BOOLEAN :
       ops' = [ops EXCEPT ![o] = IF ok THEN [ops[o] EXCEPT !.pc = "getFileHash"]
                                 ELSE Threw(ops[o])]
  /\ UNCHANGED <<stateFile, state0>>
  /\ UNCHANGED <<classifyVars, batchVars, storeVars, notebookVars, treeVars, selectionVars, markdownVars>>

\* sourceHash = await getFileHash(...); if (sourceHash) tasks.push(...)
BatchGetFileHash(o) ==
  /\ ops[o].kind = "batch" /\ ops[o].pc = "getFileHash"
  /\ \E sourceHash \in {UpstreamHash(ops[o].filePaths[ops[o].k]), Undefined} :
       ops' = [ops EXCEPT
                 ![o].tasks = IF Falsy(sourceHash) THEN ops[o].tasks
                              ELSE Append(ops[o].tasks,
                                          [filePath |-> ops[o].filePaths[ops[o].k],
                                           sourceHash |-> sourceHash]),
                 ![o].k = IF ops[o].k < Len(ops[o].filePaths) THEN ops[o].k + 1 ELSE 1,
                 ![o].pc = IF ops[o].k < Len(ops[o].filePaths)
                           THEN "getFileContent" ELSE "translateBatch"]
  /\ UNCHANGED <<stateFile, state0>>
  /\ UNCHANGED <<classifyVars, batchVars, storeVars, notebookVars, treeVars, selectionVars, markdownVars>>

\* after the loop over results: if (updates.length > 0) await batchUpdate...;
\* emit('batch-translation-completed'); return results
AfterSave(op) ==
  IF Len(op.updates) > 0
  THEN [op EXCEPT !.pc = "batchUpdateTranslationState", !.k = 1]
  ELSE Returned(op)

\* results = await llmManager.translateBatch(tasks, ...): one result per task, in
\* the order of the tasks, each a success or a failure
BatchTranslateBatch(o) ==
  /\ ops[o].kind = "batch" /\ ops[o].pc = "translateBatch"
  /\ \E success \in [1..Len(ops[o].tasks) -> BOOLEAN] :
       LET op == [ops[o] EXCEPT
                    !.results = [n \in 1..Len(ops[o].tasks) |->
                                   [filePath |-> ops[o].tasks[n].filePath,
                                    success |-> success[n]]],
                    !.k = 1]
       IN ops' = [ops EXCEPT ![o] = IF Len(op.results) > 0
                                    THEN [op EXCEPT !.pc = "saveResults"]
                                    ELSE AfterSave(op)]
  /\ UNCHANGED <<stateFile, state0>>
  /\ UNCHANGED <<classifyVars, batchVars, storeVars, notebookVars, treeVars, selectionVars, markdownVars>>

\* for (const result of results): if (result.success) { await writeTranslationFile;
\* updates.push({filePath, sourceHash: task.sourceHash}) }
BatchSaveResult(o) ==
  /\ ops[o].kind = "batch" /\ ops[o].pc = "saveResults"
  /\ LET result == ops[o].results[ops[o].k]
         last == ops[o].k = Len(ops[o].results)
         pushed == IF HasTask(ops[o].tasks, result.filePath)
                   THEN Append(ops[o].updates,
                               [filePath |-> result.filePath,
                                sourceHash |-> TaskHashOf(ops[o].tasks, result.filePath)])
                   ELSE ops[o].updates
         Continue(op) == IF last THEN AfterSave(op) ELSE [op EXCEPT !.k = ops[o].k + 1]
     IN IF Committable(result)
        THEN \E ok \in BOOLEAN :
               ops' = [ops EXCEPT ![o] =
                         IF ok THEN Continue([ops[o] EXCEPT !.updates = pushed])
                         ELSE Threw(ops[o])]
        ELSE ops' = [ops EXCEPT ![o] = Continue(ops[o])]
  /\ UNCHANGED <<stateFile, state0>>
  /\ UNCHANGED <<classifyVars, batchVars, storeVars, notebookVars, treeVars, selectionVars, markdownVars>>

\* batchUpdateTranslationState: await readTranslationState, then the loop of
\* assignments in memory
BatchUpdateTranslationState(o) ==
  /\ ops[o].kind = "batch" /\ ops[o].pc = "batchUpdateTranslationState"
  /\ ops' = [ops EXCEPT ![o].translationState =
                           batchUpdateTranslationState(readTranslationState(stateFile),
                                                       ops[o].updates),
                        ![o].pc = "writeTranslationState"]
  /\ UNCHANGED <<stateFile, state0>>
  /\ UNCHANGED <<classifyVars, batchVars, storeVars, notebookVars, treeVars, selectionVars, markdownVars>>

\* ---- the write both updates end with --------------------------------------
\* await gitManager.writeTranslationState(workingBranch, translationState): the
\* file is replaced by the mapping held in memory, or the write throws and the
\* file is as it was
WriteTranslationState(o) ==
  /\ ops[o].pc = "writeTranslationState"
  /\ \E ok \in BOOLEAN :
       IF ok
       THEN /\ stateFile' = writeTranslationState(ops[o].translationState)
            /\ ops' = [ops EXCEPT ![o] = Returned(ops[o])]
       ELSE /\ stateFile' = stateFile
            /\ ops' = [ops EXCEPT ![o] = Threw(ops[o])]
  /\ UNCHANGED state0
  /\ UNCHANGED <<classifyVars, batchVars, storeVars, notebookVars, treeVars, selectionVars, markdownVars>>

ServiceNext ==
  \/ \E o \in Ops, filePath \in Paths : translateSingleFile(o, filePath)
  \/ \E o \in Ops : SingleGetFileContent(o)
  \/ \E o \in Ops : SingleGetFileHash(o)
  \/ \E o \in Ops : SingleTranslateFile(o)
  \/ \E o \in Ops : SingleWriteTranslationFile(o)
  \/ \E o \in Ops : SingleUpdateTranslationState(o)
  \/ \E o \in Ops, filePaths \in DistinctSeqs(Paths, SelectionSizes) : batchTranslateFiles(o, filePaths)
  \/ \E o \in Ops : BatchGetFileContent(o)
  \/ \E o \in Ops : BatchGetFileHash(o)
  \/ \E o \in Ops : BatchTranslateBatch(o)
  \/ \E o \in Ops : BatchSaveResult(o)
  \/ \E o \in Ops : BatchUpdateTranslationState(o)
  \/ \E o \in Ops : WriteTranslationState(o)


(***************************************************************************)
(* FileManager on the state files of the working branches                  *)
(***************************************************************************)
\* Branch names, character by character
BranchPool == << <<"z", "h">>, <<"d", "/", "z">>, <<"d", "_", "z">> >>
Branches == { BranchPool[n] : n \in 1..Len(BranchPool) }
NoBranch == << >>

\* the characters of the class [\/\\:*?"<>|]
UnsafeChars == { "/", "\\", ":", "*", "?", "\"", "<", ">", "|" }

\* branch.replace(/[\/\\:*?"<>|]/g, '_')
getSafeBranchName(branch) ==
  [n \in 1..Len(branch) |-> IF branch[n] \in UnsafeChars THEN "_" ELSE branch[n]]

\* path.join(projectPath, `${safeBranchName}-translation_state.json`)
StateFilePath(branch) == getSafeBranchName(branch) \o << "-translation_state.json" >>

StateFilePaths == { StateFilePath(branch) : branch \in Branches }

MissingFile == [exists |-> FALSE, map |-> EmptyState]

\* the blob hash of a path after a change at the upstream branch
NewerHash == "ffff"

\* getFileSize: the byte length of the content, 0 when the content cannot be fetched
FileSizes == {0, 2048}

\* gitManager.getProjectFiles: the candidate paths, in the order of git ls-tree
CandidateFiles == [n \in 1..NumPaths |-> PathPool[n]]

\* filters of getProjectFileInfos: none, or a list of statuses (empty: no restriction)
NoFilters == [present |-> FALSE, status |-> {}]
FilterPool == { NoFilters,
                [present |-> TRUE, status |-> {}],
                [present |-> TRUE, status |-> {UNTRANSLATED, OUTDATED}] }

applyFilters(fileInfos, filters) ==
  IF ~filters.present THEN fileInfos
  ELSE SelectSeq(fileInfos,
                 LAMBDA fileInfo : filters.status # {} => fileInfo.status \in filters.status)

\* the FileInfo getFileInfo returns once the source hash is there
getFileInfo(filePath, sourceHash, size, translationState) ==
  [path |-> filePath,
   status |-> determineFileStatus(sourceHash, translationState[filePath]),
   size |-> size,
   sourceHash |-> sourceHash,
   recordedHash |-> translationState[filePath]]

\* a FileManager call: its arguments and locals; readFailed, writeFailed and
\* replaced (the recorded hash a single upsert found for its path) are history
IdleCall == [pc |-> "idle", kind |-> "none", branch |-> NoBranch, updates |-> <<>>,
             translationState |-> EmptyState, readFailed |-> FALSE,
             writeFailed |-> FALSE, replaced |-> Undefined, k |-> 0, fetched |-> <<>>,
             fileInfos |-> <<>>, filters |-> NoFilters, result |-> <<>>]

\* no call is in progress
CallIdle == call.pc \in {"idle", "returned", "threw"}

\* a bug: an error of getFileInfo ends the resolution
GetFileInfoFailedAborts(c) == [c EXCEPT !.pc = "threw", !.translationState = EmptyState]

\* catch (error) { console.warn(...) }: on to the next candidate; after the last
\* one, return this.applyFilters(fileInfos, filters)
GetFileInfoFailed(c) ==
  IF c.k < Len(CandidateFiles) THEN [c EXCEPT !.k = c.k + 1]
  ELSE [c EXCEPT !.pc = "returned", !.result = applyFilters(c.fileInfos, c.filters),
                 !.translationState = EmptyState]

\* fileInfos.push(fileInfo); on to the next candidate or return
GetFileInfoDone(c, fileInfo) ==
  LET pushed == [c EXCEPT !.fileInfos = Append(c.fileInfos, fileInfo)]
  IN IF c.k < Len(CandidateFiles) THEN [pushed EXCEPT !.k = c.k + 1]
     ELSE [pushed EXCEPT !.pc = "returned",
                         !.result = applyFilters(pushed.fileInfos, c.filters),
                         !.translationState = EmptyState]

StoreIdle ==
  /\ files = [f \in StateFilePaths |-> MissingFile]
  /\ writers = [f \in StateFilePaths |-> NoBranch]
  /\ sourceHashes = [p \in Paths |-> UpstreamHash(p)]
  /\ currentWorkingBranch = NoBranch
  /\ call = IdleCall

\* The project is selected on its first branch.  The state file of that branch is
\* missing, or holds for each path no record or a record whose source_hash is the
\* hash of an earlier version, the hash of the current version, or the empty
\* string; the other branches have no state file yet.
StoreInit ==
  /\ \E m \in [Paths -> 0..3], exists \in BOOLEAN :
       LET map0 == [p \in Paths |-> CASE m[p] = 0 -> Undefined
                                      [] m[p] = 1 -> StaleHash
                                      [] m[p] = 2 -> UpstreamHash(p)
                                      [] OTHER -> ""]
       IN /\ files = [f \in StateFilePaths |->
                        IF f = StateFilePath(BranchPool[1]) /\ exists
                        THEN [exists |-> TRUE, map |-> map0]
                        ELSE MissingFile]
          /\ writers = [f \in StateFilePaths |->
                          IF f = StateFilePath(BranchPool[1]) /\ exists
                          THEN BranchPool[1] ELSE NoBranch]
  /\ sourceHashes = [p \in Paths |-> UpstreamHash(p)]
  /\ currentWorkingBranch = BranchPool[1]
  /\ call = IdleCall

\* TranslationService.switchWorkingBranch: checkoutBranch, which may throw, then
\* the assignment
switchWorkingBranch(branch) ==
  /\ CallIdle
  /\ \E ok \in BOOLEAN :
       currentWorkingBranch' = IF ok THEN branch ELSE currentWorkingBranch
  /\ UNCHANGED <<files, writers, sourceHashes, call>>
  /\ UNCHANGED <<classifyVars, serviceVars, batchVars, notebookVars, treeVars, selectionVars, markdownVars>>

\* a commit at the upstream branch changes the blob of a path
UpstreamChanges(filePath) ==
  /\ sourceHashes[filePath] = UpstreamHash(filePath)
  /\ sourceHashes' = [sourceHashes EXCEPT ![filePath] = NewerHash]
  /\ UNCHANGED <<files, writers, currentWorkingBranch, call>>
  /\ UNCHANGED <<classifyVars, serviceVars, batchVars, notebookVars, treeVars, selectionVars, markdownVars>>

\* fileManager.updateTranslationState(currentWorkingBranch, filePath, sourceHash),
\* called with the hash fetched from the upstream branch
CallUpdateTranslationState(filePath) ==
  /\ CallIdle
  /\ call' = [IdleCall EXCEPT !.pc = "read", !.kind = "update",
                              !.branch = currentWorkingBranch,
                              !.updates = << [filePath |-> filePath,
                                              sourceHash |-> sourceHashes[filePath]] >>]
  /\ UNCHANGED <<files, writers, sourceHashes, currentWorkingBranch>>
  /\ UNCHANGED <<classifyVars, serviceVars, batchVars, notebookVars, treeVars, selectionVars, markdownVars>>

\* fileManager.batchUpdateTranslationState(currentWorkingBranch, updates)
CallBatchUpdateTranslationState(filePaths) ==
  /\ CallIdle
  /\ call' = [IdleCall EXCEPT !.pc = "read", !.kind = "batchUpdate",
                              !.branch = currentWorkingBranch,
                              !.updates = [n \in 1..Len(filePaths) |->
                                             [filePath |-> filePaths[n],
                                              sourceHash |-> sourceHashes[filePaths[n]]]]]
  /\ UNCHANGED <<files, writers, sourceHashes, currentWorkingBranch>>
  /\ UNCHANGED <<classifyVars, serviceVars, batchVars, notebookVars, treeVars, selectionVars, markdownVars>>

\* fileManager.getProjectFileInfos(upstream, currentWorkingBranch, filters):
\* gitManager.getProjectFiles, which may throw
getProjectFileInfos(filters) ==
  /\ CallIdle
  /\ \E ok \in BOOLEAN :
       call' = [IdleCall EXCEPT !.pc = IF ok THEN "read" ELSE "threw",
                                !.kind = "resolve",
                                !.branch = currentWorkingBranch,
                                !.filters = filters]
  /\ UNCHANGED <<files, writers, sourceHashes, currentWorkingBranch>>
  /\ UNCHANGED <<classifyVars, serviceVars, batchVars, notebookVars, treeVars, selectionVars, markdownVars>>

\* await gitManager.readTranslationState(branch): readFile and JSON.parse in a try
\* whose catch returns {}, whatever failed; then, in the upserts, the assignments
ReadState ==
  /\ call.pc = "read"
  /\ \E failed \in BOOLEAN :
       /\ failed => files[StateFilePath(call.branch)].exists
       /\ LET state == IF failed THEN EmptyState
                       ELSE readTranslationState(files[StateFilePath(call.branch)])
              read == [call EXCEPT !.readFailed = failed]
          IN call' =
               CASE call.kind = "update" ->
                      [read EXCEPT !.pc = "write",
                                   !.replaced = state[call.updates[1].filePath],
                                   !.translationState =
                                      updateTranslationState(state, call.updates[1].filePath,
                                                             call.updates[1].sourceHash)]
                 [] call.kind = "batchUpdate" ->
                      [read EXCEPT !.pc = "write",
                                   !.translationState =
                                      batchUpdateTranslationState(state, call.updates)]
                 [] OTHER ->
                      [read EXCEPT !.pc = "getFileInfo", !.translationState = state, !.k = 1]
  /\ UNCHANGED <<files, writers, sourceHashes, currentWorkingBranch>>
  /\ UNCHANGED <<classifyVars, serviceVars, batchVars, notebookVars, treeVars, selectionVars, markdownVars>>

\* for (const filePath of files) { try { getFileInfo; push } catch { warn } }:
\* getFileHash returns null when the path is absent or git fails, and getFileInfo
\* throws; getFileSize returns 0 when the content cannot be fetched
GetFileInfo ==
  /\ call.pc = "getFileInfo"
  /\ LET filePath == CandidateFiles[call.k]
     IN \E sourceHash \in {sourceHashes[filePath], Undefined}, size \in FileSizes :
          LET fetched == [call EXCEPT !.fetched = Append(call.fetched, sourceHash)]
          IN call' = IF Falsy(sourceHash)
                     THEN GetFileInfoFailed(fetched)
                     ELSE GetFileInfoDone(fetched,
                                          getFileInfo(filePath, sourceHash, size,
                                                      call.translationState))
  /\ UNCHANGED <<files, writers, sourceHashes, currentWorkingBranch>>
  /\ UNCHANGED <<classifyVars, serviceVars, batchVars, notebookVars, treeVars, selectionVars, markdownVars>>

\* await gitManager.writeTranslationState(branch, translationState): the file is
\* replaced, or the write throws and the upsert with it
WriteState ==
  /\ call.pc = "write"
  /\ \E ok \in BOOLEAN :
       IF ok
       THEN /\ files' = [files EXCEPT ![StateFilePath(call.branch)] =
                                         writeTranslationState(call.translationState)]
            /\ writers' = [writers EXCEPT ![StateFilePath(call.branch)] = call.branch]
            /\ call' = [call EXCEPT !.pc = "returned", !.translationState = EmptyState]
       ELSE /\ UNCHANGED <<files, writers>>
            /\ call' = [call EXCEPT !.pc = "threw", !.writeFailed = TRUE,
                                    !.translationState = EmptyState]
  /\ UNCHANGED <<sourceHashes, currentWorkingBranch>>
  /\ UNCHANGED <<classifyVars, serviceVars, batchVars, notebookVars, treeVars, selectionVars, markdownVars>>

\* the upserts on the state files of the working branches
StoreNext ==
  \/ \E branch \in Branches : switchWorkingBranch(branch)
  \/ \E filePath \in Paths : UpstreamChanges(filePath)
  \/ \E filePath \in Paths : CallUpdateTranslationState(filePath)
  \/ \E filePaths \in DistinctSeqs(Paths, SelectionSizes) :
       CallBatchUpdateTranslationState(filePaths)
  \/ ReadState
  \/ WriteState

\* resolutions of the state file of one working branch
ResolveNext ==
  \/ \E filePath \in Paths : UpstreamChanges(filePath)
  \/ \E filters \in FilterPool : getProjectFileInfos(filters)
  \/ ReadState
  \/ GetFileInfo


(***************************************************************************)
(* LLMManager: translateFile and translateBatch                            *)
(***************************************************************************)
\* Markdown cells with text in the notebook of the pool
NumCells == 2

\* Longest task list and largest settings.concurrency drawn
MaxTasks == 4
MaxConcurrency == 2

\* content of a source file: plain text, a notebook with `cells` markdown cells
\* that hold text, or text that JSON.parse rejects
Text == [kind |-> "text", cells |-> 0]
Notebook(n) == [kind |-> "notebook", cells |-> n]
Malformed == [kind |-> "malformed", cells |-> 0]

TaskPool == <<
  [filePath |-> "docs/a.md", content |-> Text, sourceHash |-> "a1b2c3"],
  [filePath |-> "nb/intro.ipynb", content |-> Notebook(NumCells), sourceHash |-> "d4e5f6"],
  [filePath |-> "docs/b.md", content |-> Text, sourceHash |-> "e7f8a9"],
  [filePath |-> "nb/broken.IPYNB", content |-> Malformed, sourceHash |-> "ffff"],
  [filePath |-> "docs/c.md", content |-> Text, sourceHash |-> "0000"] >>

TaskLists ==
  { [n \in 1..Len(s) |-> TaskPool[s[n]]] : s \in DistinctSeqs(1..Len(TaskPool), 0..MaxTasks) }

\* filePath.split('.').pop()?.toLowerCase()
FileExt(filePath) ==
  CASE filePath \in {"nb/intro.ipynb", "nb/broken.IPYNB"} -> "ipynb"
    [] filePath \in {"docs/a.md", "docs/b.md", "docs/c.md"} -> "md"
    [] OTHER -> ""

\* translateJupyterNotebook: JSON.parse(content) throws on anything but a notebook
ParseFails(task) == FileExt(task.filePath) = "ipynb" /\ task.content.kind # "notebook"

\* client.post requests translateFile issues before its first suspension:
\* translateMarkdown one, translateJupyterNotebook one per markdown cell with text
RequestsOf(task) ==
  IF FileExt(task.filePath) = "ipynb"
  THEN IF ParseFails(task) THEN 0 ELSE task.content.cells
  ELSE 1

\* the TranslationResult of translateFile; t: the strategy threw
TranslationResultOf(task, t) ==
  IF t THEN [filePath |-> task.filePath, translatedContent |-> "", success |-> FALSE,
             error |-> "error.message"]
  ELSE [filePath |-> task.filePath, translatedContent |-> "translated", success |-> TRUE,
        error |-> Undefined]

NoResult == [filePath |-> Undefined, translatedContent |-> "", success |-> FALSE,
             error |-> Undefined]

Min(a, b) == IF a < b THEN a ELSE b

\* tasks.slice(i, i + concurrency), as 1-based indexes
Batch == (i + 1)..Min(i + concurrency, Len(tasks))

DoneTasks == { k \in 1..Len(tasks) : taskState[k] = "done" }

\* a bug: the next wave is started as soon as one promise of the wave has settled
WaveSettledAny == \E k \in Batch : taskState[k] = "done"

\* await Promise.all(batchPromises)
WaveSettled == \A k \in Batch : taskState[k] = "done"

\* a bug: failed tasks are left out of the results
WaveResultsSuccessOnly ==
  SelectSeq([n \in 1..Cardinality(Batch) |-> batchResults[i + n]], LAMBDA r : r.success)

\* batchResults, in the order of the promises
WaveResults == [n \in 1..Cardinality(Batch) |-> batchResults[i + n]]

\* a bug: a failed task ends the loop
MoreWavesUnlessFailed ==
  /\ i + concurrency < Len(tasks)
  /\ \A k \in Batch : batchResults[k].success

\* i + concurrency < tasks.length: the delay condition and, after i += concurrency,
\* the loop condition
MoreWaves == i + concurrency < Len(tasks)

\* onProgress before the task starts
StartProgress(k) ==
  << [completed |-> completedCount, total |-> Len(tasks), current |-> tasks[k].filePath] >>

\* a bug: no progress report for a task that failed
CompletionProgressOnSuccess(k, result) ==
  IF result.success
  THEN << [completed |-> completedCount + 1, total |-> Len(tasks),
           current |-> tasks[k].filePath] >>
  ELSE << >>

\* a bug: the report names the task that follows in the list
CompletionProgressNextTask(k, result) ==
  << [completed |-> completedCount + 1, total |-> Len(tasks),
      current |-> tasks[IF k < Len(tasks) THEN k + 1 ELSE k].filePath] >>

\* completedCount++; onProgress({completed: completedCount, total, current: task.filePath})
CompletionProgress(k, result) ==
  << [completed |-> completedCount + 1, total |-> Len(tasks),
      current |-> tasks[k].filePath] >>

BatchIdle ==
  /\ tasks = <<>> /\ concurrency = 1 /\ i = 0 /\ next = 1
  /\ taskState = <<>> /\ calls = <<>> /\ threw = <<>>
  /\ completedCount = 0 /\ batchResults = <<>> /\ results = <<>>
  /\ progress = <<>> /\ progressDone = <<>> /\ pc = "idle"

BatchInit ==
  /\ tasks \in TaskLists
  /\ concurrency \in 1..MaxConcurrency
  /\ i = 0 /\ next = 1
  /\ taskState = [k \in 1..Len(tasks) |-> "pending"]
  /\ calls = [k \in 1..Len(tasks) |-> 0]
  /\ threw = [k \in 1..Len(tasks) |-> FALSE]
  /\ completedCount = 0
  /\ batchResults = [k \in 1..Len(tasks) |-> NoResult]
  /\ results = <<>>
  /\ progress = <<>> /\ progressDone = <<>>
  /\ pc = "called"

\* concurrency values updateLLMSettings stores: it merges the settings it is
\* given into llm_settings as they are, and the form hands over parseInt of
\* what was typed
StoredConcurrencies == 0..MaxConcurrency

\* translateBatch called with a concurrency that was stored
BatchInitStored ==
  /\ tasks \in TaskLists
  /\ concurrency \in StoredConcurrencies
  /\ i = 0 /\ next = 1
  /\ taskState = [k \in 1..Len(tasks) |-> "pending"]
  /\ calls = [k \in 1..Len(tasks) |-> 0]
  /\ threw = [k \in 1..Len(tasks) |-> FALSE]
  /\ completedCount = 0
  /\ batchResults = [k \in 1..Len(tasks) |-> NoResult]
  /\ results = <<>>
  /\ progress = <<>> /\ progressDone = <<>>
  /\ pc = "called"

\* const results = []; let completedCount = 0; for (let i = 0; i < tasks.length; ...
translateBatch ==
  /\ pc = "called"
  /\ pc' = IF 0 < Len(tasks) THEN (IF Batch = {} THEN "await" ELSE "map") ELSE "returned"
  /\ UNCHANGED <<tasks, concurrency, i, next, taskState, calls, threw, completedCount,
                 batchResults, results, progress, progressDone>>
  /\ UNCHANGED <<classifyVars, serviceVars, storeVars, notebookVars, treeVars, selectionVars, markdownVars>>

\* batch.map(async (task) => { onProgress(...); await this.translateFile(...) ...
\* the callback runs for one task up to the first suspension of translateFile
StartTask ==
  /\ pc = "map"
  /\ next \in Batch
  /\ progress' = progress \o StartProgress(next)
  /\ progressDone' = Append(progressDone, DoneTasks)
  /\ taskState' = [taskState EXCEPT ![next] = "running"]
  /\ calls' = [calls EXCEPT ![next] = RequestsOf(tasks[next])]
  /\ threw' = [threw EXCEPT ![next] = ParseFails(tasks[next])]
  /\ next' = next + 1
  /\ pc' = IF next + 1 \in Batch THEN "map" ELSE "await"
  /\ UNCHANGED <<tasks, concurrency, i, completedCount, batchResults, results>>
  /\ UNCHANGED <<classifyVars, serviceVars, storeVars, notebookVars, treeVars, selectionVars, markdownVars>>

\* translateFile of task k returns its result; the callback of batch.map goes on:
\* completedCount++, onProgress, return result
Settle(k, t) ==
  LET result == TranslationResultOf(tasks[k], t)
      reports == CompletionProgress(k, result)
  IN /\ batchResults' = [batchResults EXCEPT ![k] = result]
     /\ completedCount' = completedCount + 1
     /\ progress' = progress \o reports
     /\ progressDone' = progressDone \o [n \in 1..Len(reports) |-> DoneTasks \cup {k}]
     /\ taskState' = [taskState EXCEPT ![k] = "done"]

\* a request of task k is answered (ok) or fails; the last answer lets translateFile
\* return.  A failed request makes translateMarkdown throw; translateJupyterNotebook
\* catches it and keeps the cell's text.
Response(k, ok) ==
  /\ pc = "await"
  /\ taskState[k] = "running"
  /\ calls[k] > 0
  /\ LET t == threw[k] \/ (~ok /\ FileExt(tasks[k].filePath) # "ipynb")
     IN /\ calls' = [calls EXCEPT ![k] = calls[k] - 1]
        /\ threw' = [threw EXCEPT ![k] = t]
        /\ IF calls[k] = 1
           THEN Settle(k, t)
           ELSE UNCHANGED <<batchResults, completedCount, progress, progressDone, taskState>>
  /\ UNCHANGED <<tasks, concurrency, i, next, results, pc>>
  /\ UNCHANGED <<classifyVars, serviceVars, storeVars, notebookVars, treeVars, selectionVars, markdownVars>>

\* a task that issued no request (JSON.parse threw, or no cell to translate)
\* settles once the synchronous part of batch.map is over
SettleWithoutRequest(k) ==
  /\ pc = "await"
  /\ taskState[k] = "running"
  /\ calls[k] = 0
  /\ Settle(k, threw[k])
  /\ UNCHANGED <<tasks, concurrency, i, next, calls, threw, results, pc>>
  /\ UNCHANGED <<classifyVars, serviceVars, storeVars, notebookVars, treeVars, selectionVars, markdownVars>>

\* const batchResults = await Promise.all(batchPromises); results.push(...batchResults);
\* if (i + concurrency < tasks.length) await this.delay(1000); else the loop ends
WaveDone ==
  /\ pc = "await"
  /\ WaveSettled
  /\ results' = results \o WaveResults
  /\ IF MoreWaves
     THEN pc' = "delay" /\ UNCHANGED <<i, next>>
     ELSE pc' = "returned" /\ i' = i + concurrency /\ UNCHANGED next
  /\ UNCHANGED <<tasks, concurrency, taskState, calls, threw, completedCount,
                 batchResults, progress, progressDone>>
  /\ UNCHANGED <<classifyVars, serviceVars, storeVars, notebookVars, treeVars, selectionVars, markdownVars>>

\* the delay is over: i += concurrency, the next wave (batch.map of an empty
\* slice calls nothing)
DelayElapsed ==
  /\ pc = "delay"
  /\ i' = i + concurrency
  /\ next' = i + concurrency + 1
  /\ pc' = IF concurrency > 0 THEN "map" ELSE "await"
  /\ UNCHANGED <<tasks, concurrency, taskState, calls, threw, completedCount,
                 batchResults, results, progress, progressDone>>
  /\ UNCHANGED <<classifyVars, serviceVars, storeVars, notebookVars, treeVars, selectionVars, markdownVars>>

BatchNext ==
  \/ translateBatch
  \/ StartTask
  \/ \E k \in 1..Len(tasks), ok \in BOOLEAN : Response(k, ok)
  \/ \E k \in 1..Len(tasks) : SettleWithoutRequest(k)
  \/ WaveDone
  \/ DelayElapsed

(***************************************************************************)
(* LLMManager.translateFile on a notebook: translateJupyterNotebook        *)
(***************************************************************************)
\* Most cells of a notebook drawn
MaxCells == 3

\* A cell: its cell_type and its source, which is a string (lines = 0) or an array
\* of `lines` strings; text is the source as one string (source.join(''))
CellPool == {
  [cell_type |-> "code", isArray |-> TRUE, lines |-> 1, text |-> "print(1)"],
  [cell_type |-> "markdown", isArray |-> TRUE, lines |-> 2, text |-> "# Title"],
  [cell_type |-> "markdown", isArray |-> FALSE, lines |-> 0, text |-> "Body"],
  [cell_type |-> "markdown", isArray |-> FALSE, lines |-> 0, text |-> "   "] }

\* content of the file: a notebook, or text that is no notebook (JSON.parse throws,
\* or the parsed value has no cells)
NotebookContents ==
  { [kind |-> "notebook", cells |-> c] :
      c \in UNION { [1..n -> CellPool] : n \in 1..MaxCells } }
  \cup { [kind |-> "malformed", cells |-> <<>>] }

\* what the backend answers for a text
TranslationOf(text) ==
  CASE text = "# Title" -> "# Biaoti"
    [] text = "Body" -> "Zhengwen"
    [] OTHER -> "Yiwen"

\* cellContent.trim() is empty
Blank(text) == text \in {"", "   "}

\* cell.cell_type === 'markdown' && cell.source && cell.source.length > 0, and
\* cellContent.trim()
NeedsTranslation(cell) ==
  cell.cell_type = "markdown" /\ cell.text # "" /\ ~Blank(cell.text)

\* a bug: the text of a cell whose request failed is dropped
CellTranslationDropsFailed(cell, answer) ==
  IF answer = "ok" THEN TranslationOf(cell.text) ELSE ""

\* translatedContent of a cell: response...content || cellData.content when the
\* request is answered ("ok", or "empty" for an answer without content), and
\* cellData.content in the catch of a failed request
CellTranslation(cell, answer) ==
  IF answer = "ok" THEN TranslationOf(cell.text) ELSE cell.text

\* cells[result.index].source = result.isArray ? [translatedContent] : translatedContent
Recompose(cell, translatedContent) ==
  [cell EXCEPT !.text = translatedContent, !.lines = IF cell.isArray THEN 1 ELSE 0]

\* the cells of translatedNotebook once every request has settled
TranslatedCells(content, answers) ==
  [n \in 1..Len(content.cells) |->
     IF answers[n] = "none" THEN content.cells[n]
     ELSE Recompose(content.cells[n], CellTranslation(content.cells[n], answers[n]))]

NoNotebookResult == [success |-> FALSE, cells |-> <<>>, error |-> Undefined]

NotebookIdle ==
  /\ nbContent = [kind |-> "malformed", cells |-> <<>>]
  /\ nbCalls = <<>>
  /\ nbResult = NoNotebookResult
  /\ nbPc = "idle"

NotebookInit ==
  /\ nbContent \in NotebookContents
  /\ nbCalls = [n \in 1..Len(nbContent.cells) |-> "none"]
  /\ nbResult = NoNotebookResult
  /\ nbPc = "called"

\* translateFile -> translateJupyterNotebook up to the first suspension: parse,
\* collect the markdown cells, issue one request per cell; without such a cell the
\* notebook is returned as it is; an exception becomes a failed result
translateFile ==
  /\ nbPc = "called"
  /\ IF nbContent.kind # "notebook"
     THEN /\ nbResult' = [success |-> FALSE, cells |-> <<>>, error |-> "error.message"]
          /\ nbPc' = "returned"
          /\ UNCHANGED nbCalls
     ELSE LET issued == [n \in 1..Len(nbContent.cells) |->
                           IF NeedsTranslation(nbContent.cells[n]) THEN "pending"
                           ELSE "none"]
          IN /\ nbCalls' = issued
             /\ IF \E n \in 1..Len(issued) : issued[n] = "pending"
                THEN nbPc' = "await" /\ UNCHANGED nbResult
                ELSE /\ nbPc' = "returned"
                     /\ nbResult' = [success |-> TRUE, cells |-> nbContent.cells,
                                     error |-> Undefined]
  /\ UNCHANGED nbContent
  /\ UNCHANGED <<classifyVars, serviceVars, batchVars, storeVars, treeVars, selectionVars, markdownVars>>

\* the request of cell n settles; after the last one Promise.all resolves, the
\* cells are replaced and the notebook is returned with success: true
CellResponse(n, answer) ==
  /\ nbPc = "await"
  /\ nbCalls[n] = "pending"
  /\ LET answers == [nbCalls EXCEPT ![n] = answer]
     IN /\ nbCalls' = answers
        /\ IF \E m \in 1..Len(answers) : answers[m] = "pending"
           THEN UNCHANGED <<nbResult, nbPc>>
           ELSE /\ nbPc' = "returned"
                /\ nbResult' = [success |-> TRUE,
                                cells |-> TranslatedCells(nbContent, answers),
                                error |-> Undefined]
  /\ UNCHANGED nbContent
  /\ UNCHANGED <<classifyVars, serviceVars, batchVars, storeVars, treeVars, selectionVars, markdownVars>>

NotebookNext ==
  \/ translateFile
  \/ \E n \in 1..Len(nbContent.cells), answer \in {"ok", "empty", "failed"} :
       CellResponse(n, answer)

(***************************************************************************)
(* FileManager.getFileTree / buildFileTree, FileTree.filteredFileTree      *)
(***************************************************************************)
\* Paths are strings of characters, written as sequences of one-character
\* strings; a node of the tree is referred to by its path, the key nodeMap has
\* for it, so a list of nodes is a sequence of paths.
MaxRecords == 3

\* paths of blobs git ls-tree -r lists for a tree
TreePathPool == { <<"b">>, <<"a">>, <<"d", "/", "b">>, <<"d", "/", "B">>,
                  <<"d", "/", "c", "/", "a">>, <<"e", "/", "a">> }

\* the fields of FileInfo the tree and the filters read
TreeFileInfoPool ==
  { [path |-> p, status |-> st] : p \in TreePathPool, st \in {UNTRANSLATED, UP_TO_DATE} }

\* what getProjectFileInfos resolves: file infos of distinct paths, in any order
TreeFileInfoLists ==
  UNION { { s \in [1..n -> TreeFileInfoPool] :
              \A a, b \in 1..n : a # b => s[a].path # s[b].path } : n \in 1..MaxRecords }

\* filters of getFileTree: none, or one status
TreeFilterPool == { NoFilters,
                    [present |-> TRUE, status |-> {UNTRANSLATED}],
                    [present |-> TRUE, status |-> {UP_TO_DATE}] }

\* statusFilter of the FileTree component
StatusFilters == {"all", UNTRANSLATED, UP_TO_DATE}

\* fileInfo: undefined
NoFileInfo == [path |-> <<>>, status |-> Undefined]

EmptyNodeMap == [p \in {} |-> p]

NoTree == [roots |-> <<>>, nodes |-> EmptyNodeMap]

Range(s) == { s[n] : n \in 1..Len(s) }

RECURSIVE splitRest(_, _)
\* the parts of what is left of the string, cur being the part read so far
splitRest(s, cur) ==
  IF s = <<>> THEN <<cur>>
  ELSE IF Head(s) = "/" THEN <<cur>> \o splitRest(Tail(s), <<>>)
  ELSE splitRest(Tail(s), Append(cur, Head(s)))

\* fileInfo.path.split('/')
split(path) == splitRest(path, <<>>)

\* currentPath ? `${currentPath}/${part}` : part
NextPath(currentPath, part) ==
  IF currentPath # <<>> THEN currentPath \o <<"/">> \o part ELSE part

\* the FileTreeNode created for currentPath; children: undefined is hasChildren
\* FALSE
NewNode(part, currentPath, isFile, fileInfo) ==
  [name |-> part, path |-> currentPath, isFile |-> isFile,
   hasChildren |-> ~isFile, children |-> <<>>,
   fileInfo |-> IF isFile THEN fileInfo ELSE NoFileInfo]

\* a bug: every new node is pushed to the root list
AddNodeToRoot(st, parentPath, node) ==
  [st EXCEPT !.nodeMap = (node.path :> node) @@ st.nodeMap,
             !.tree = Append(@, node.path)]

\* nodeMap.set(currentPath, node), then the node is pushed to the children of
\* its parent or, without parent path, to tree; pushing to children that are
\* undefined throws
AddNode(st, parentPath, node) ==
  LET added == [st EXCEPT !.nodeMap = (node.path :> node) @@ st.nodeMap]
  IN IF parentPath # <<>> /\ parentPath \in DOMAIN st.nodeMap
     THEN IF st.nodeMap[parentPath].hasChildren
          THEN [added EXCEPT !.nodeMap[parentPath].children = Append(@, node.path)]
          ELSE [added EXCEPT !.threw = TRUE]
     ELSE IF parentPath = <<>>
          THEN [added EXCEPT !.tree = Append(@, node.path)]
          ELSE added

RECURSIVE AddParts(_, _, _, _, _)
\* the inner loop of buildFileTree from index idx (0-based) on
AddParts(st, fileInfo, pathParts, idx, currentPath) ==
  IF idx >= Len(pathParts) \/ st.threw THEN st
  ELSE LET part == pathParts[idx + 1]
           path == NextPath(currentPath, part)
           node == NewNode(part, path, idx = Len(pathParts) - 1, fileInfo)
       IN AddParts(IF path \notin DOMAIN st.nodeMap
                   THEN AddNode(st, currentPath, node) ELSE st,
                   fileInfo, pathParts, idx + 1, path)

\* collation of the letters the names are made of: the letter first, then its case
Letter(c) ==
  CASE c = "a" -> 1
    [] c \in {"b", "B"} -> 2
    [] c = "c" -> 3
    [] c = "d" -> 4
    [] c = "e" -> 5
    [] OTHER -> 0

Case(c) == IF c = "B" THEN 1 ELSE 0

RECURSIVE CompareKeys(_, _)
\* lexicographic comparison of two sequences of numbers: -1, 0 or 1
CompareKeys(s, t) ==
  IF s = <<>> THEN (IF t = <<>> THEN 0 ELSE -1)
  ELSE IF t = <<>> THEN 1
  ELSE IF Head(s) < Head(t) THEN -1
  ELSE IF Head(s) > Head(t) THEN 1
  ELSE CompareKeys(Tail(s), Tail(t))

\* a.localeCompare(b): the letters decide, their case breaks the tie, lower
\* case first
localeCompare(a, b) ==
  LET letters == CompareKeys([n \in 1..Len(a) |-> Letter(a[n])],
                             [n \in 1..Len(b) |-> Letter(b[n])])
  IN IF letters # 0 THEN letters
     ELSE CompareKeys([n \in 1..Len(a) |-> Case(a[n])], [n \in 1..Len(b) |-> Case(b[n])])

\* a bug: directories and files are ordered by name alike
compareNodesByName(a, b) == localeCompare(a.name, b.name)

\* the comparison function of nodes.sort
compareNodes(a, b) ==
  IF a.isFile # b.isFile THEN (IF a.isFile THEN 1 ELSE -1)
  ELSE localeCompare(a.name, b.name)

RECURSIVE InsertNode(_, _, _)
\* the sorted list with node p added behind the nodes that do not follow it
InsertNode(sorted, p, map) ==
  IF sorted = <<>> THEN <<p>>
  ELSE IF compareNodes(map[Head(sorted)], map[p]) > 0 THEN <<p>> \o sorted
  ELSE <<Head(sorted)>> \o InsertNode(Tail(sorted), p, map)

RECURSIVE SortedNodes(_, _)
\* nodes.sort(...): Array.prototype.sort is stable
SortedNodes(nodes, map) ==
  IF nodes = <<>> THEN <<>>
  ELSE InsertNode(SortedNodes(SubSeq(nodes, 1, Len(nodes) - 1), map),
                  nodes[Len(nodes)], map)

RECURSIVE sortNodes(_, _)
RECURSIVE sortChildren(_, _, _)
\* sortNodes(nodes): the list sorted, then the children of each of its nodes
sortNodes(nodes, map) ==
  LET sorted == SortedNodes(nodes, map)
  IN [nodes |-> sorted, nodeMap |-> sortChildren(sorted, 1, map)]

\* for (const node of nodes) if (node.children) sortNodes(node.children)
sortChildren(nodes, k, map) ==
  IF k > Len(nodes) THEN map
  ELSE IF map[nodes[k]].hasChildren
       THEN LET r == sortNodes(map[nodes[k]].children, map)
            IN sortChildren(nodes, k + 1,
                            [r.nodeMap EXCEPT ![nodes[k]].children = r.nodes])
       ELSE sortChildren(nodes, k + 1, map)

\* a bug: a directory is kept whatever is left beneath it
DirectorySurvivesAlways(filteredChildren) == TRUE

\* filteredChildren.length > 0
DirectorySurvives(filteredChildren) == Len(filteredChildren) > 0

\* filterNode returned null
Null == [kept |-> FALSE, nodes |-> EmptyNodeMap]

RECURSIVE filterNode(_, _, _)
\* filterNode(node) of filteredFileTree with the status filter: whether the node
\* is kept, and the nodes of the copy returned for it
filterNode(path, map, filter) ==
  LET node == map[path]
  IN IF node.isFile /\ node.fileInfo # NoFileInfo
     THEN IF filter # "all" /\ node.fileInfo.status # filter
          THEN Null
          ELSE [kept |-> TRUE, nodes |-> (path :> node)]
     ELSE IF node.hasChildren
     THEN LET sub == [n \in 1..Len(node.children) |->
                        filterNode(node.children[n], map, filter)]
              keptAt == { n \in 1..Len(sub) : sub[n].kept }
              filteredChildren ==
                SelectSeq(node.children, LAMBDA c : \E n \in keptAt : node.children[n] = c)
              below == UNION { DOMAIN sub[n].nodes : n \in keptAt }
          IN IF DirectorySurvives(filteredChildren)
             THEN [kept |-> TRUE,
                   nodes |-> [q \in below \cup {path} |->
                                IF q = path
                                THEN [node EXCEPT !.children = filteredChildren]
                                ELSE sub[CHOOSE n \in keptAt : q \in DOMAIN sub[n].nodes]
                                       .nodes[q]]]
             ELSE Null
     ELSE Null

\* fileTree.map(node => filterNode(node)).filter(node => node !== null)
FilteredTree(roots, map, filter) ==
  LET kept == { p \in Range(roots) : filterNode(p, map, filter).kept }
      below == UNION { DOMAIN filterNode(p, map, filter).nodes : p \in kept }
  IN [roots |-> SelectSeq(roots, LAMBDA p : p \in kept),
      nodes |-> [q \in below |->
                   filterNode(CHOOSE p \in kept : q \in DOMAIN filterNode(p, map, filter).nodes,
                              map, filter).nodes[q]]]

\* no tree is being built
TreeIdle ==
  /\ trFileInfos = <<>>
  /\ trFilters = NoFilters
  /\ trK = 0
  /\ nodeMap = EmptyNodeMap
  /\ tree = <<>>
  /\ statusFilter = "all"
  /\ filteredFileTree = NoTree
  /\ trPc = "idle"

TreeInit ==
  /\ trFileInfos \in TreeFileInfoLists
  /\ trFilters = NoFilters
  /\ trK = 0
  /\ nodeMap = EmptyNodeMap
  /\ tree = <<>>
  /\ statusFilter = "all"
  /\ filteredFileTree = NoTree
  /\ trPc = "called"

\* fileInfos of getFileTree: what getProjectFileInfos returns under the filters
TreeInput == applyFilters(trFileInfos, trFilters)

\* getFileTree(upstreamBranch, workingBranch, filters) up to the loop of
\* buildFileTree
getFileTree(filters) ==
  /\ trPc = "called"
  /\ trFilters' = filters
  /\ trPc' = IF applyFilters(trFileInfos, filters) = <<>> THEN "sort" ELSE "build"
  /\ UNCHANGED <<trFileInfos, trK, nodeMap, tree, statusFilter, filteredFileTree>>
  /\ UNCHANGED <<classifyVars, serviceVars, batchVars, storeVars, notebookVars,
                 selectionVars, markdownVars>>

\* one iteration of for (const fileInfo of fileInfos)
AddFileInfo ==
  /\ trPc = "build"
  /\ LET fileInfo == TreeInput[trK + 1]
         st == AddParts([nodeMap |-> nodeMap, tree |-> tree, threw |-> FALSE],
                        fileInfo, split(fileInfo.path), 0, <<>>)
     IN /\ nodeMap' = st.nodeMap
        /\ tree' = st.tree
        /\ trK' = trK + 1
        /\ trPc' = IF st.threw THEN "threw"
                   ELSE IF trK + 1 = Len(TreeInput) THEN "sort" ELSE "build"
  /\ UNCHANGED <<trFileInfos, trFilters, statusFilter, filteredFileTree>>
  /\ UNCHANGED <<classifyVars, serviceVars, batchVars, storeVars, notebookVars,
                 selectionVars, markdownVars>>

\* sortNodes(tree); return tree
SortTree ==
  /\ trPc = "sort"
  /\ LET r == sortNodes(tree, nodeMap)
     IN tree' = r.nodes /\ nodeMap' = r.nodeMap
  /\ trPc' = "returned"
  /\ UNCHANGED <<trFileInfos, trFilters, trK, statusFilter, filteredFileTree>>
  /\ UNCHANGED <<classifyVars, serviceVars, batchVars, storeVars, notebookVars,
                 selectionVars, markdownVars>>

\* the FileTree component computes filteredFileTree from the tree it loaded
FilterFileTree(filter) ==
  /\ trPc = "returned"
  /\ statusFilter' = filter
  /\ filteredFileTree' = IF Len(tree) = 0 THEN NoTree
                         ELSE FilteredTree(tree, nodeMap, filter)
  /\ trPc' = "shown"
  /\ UNCHANGED <<trFileInfos, trFilters, trK, nodeMap, tree>>
  /\ UNCHANGED <<classifyVars, serviceVars, batchVars, storeVars, notebookVars,
                 selectionVars, markdownVars>>

TreeNext ==
  \/ \E filters \in TreeFilterPool : getFileTree(filters)
  \/ AddFileInfo
  \/ SortTree
  \/ \E filter \in StatusFilters : FilterFileTree(filter)

(***************************************************************************)
(* TranslationService: the current selection, and a translation in flight  *)
(***************************************************************************)
\* ids of the projects configManager knows, and an id it does not know
ProjectIds == {"p1", "p2"}
UnknownProjectId == "p9"

\* currentProjectId: null
NoProject == "null"

WorkingBranches == {"main", "zh"}
UpstreamBranches == {"upstream/main", "upstream/dev"}

\* git fetch upstream runs that bring a new version of the translated file to
\* an upstream branch
MaxFetches == 1

\* git show <branch>:<path> and git rev-parse <branch>:<path> of a version
BlobContent(version) == <<"content", version>>
BlobHash(version) == <<"blob", version>>

NoContent == <<>>
NoHash == <<>>

\* project.upstream_branch of the ProjectConfig
UpstreamBranchOf(projectId) == IF projectId = "p2" THEN "upstream/dev" ELSE ""

\* the fields of a TranslationService after construction
NewService == [currentProjectId |-> NoProject,
               currentUpstreamBranch |-> "upstream/main",
               currentWorkingBranch |-> "main"]

\* translateSingleFile, or batchTranslateFiles with one path: the project whose
\* managers it took, the branches it passed to getFileContent, getFileHash and
\* update(Batch)TranslationState, and what it read; started (history) is the
\* selection when it was invoked
IdleJob == [pc |-> "idle", project |-> NoProject, started |-> NewService,
            contentBranch |-> "", content |-> NoContent,
            hashBranch |-> "", sourceHash |-> NoHash, commitBranch |-> ""]

\* selectProject / switchWorkingBranch: argument, the project whose gitManager
\* it took, and (history) the selection when selectProject was invoked
IdleSel == [pc |-> "idle", kind |-> "none", arg |-> "", project |-> NoProject,
            before |-> NewService]

SelectionIdle ==
  /\ service = NewService
  /\ heads = [p \in ProjectIds |-> "main"]
  /\ refs = [p \in ProjectIds |-> [b \in UpstreamBranches |-> 1]]
  /\ job = IdleJob
  /\ sel = IdleSel

\* the service as constructed; every upstream branch holds the first version of
\* the file
SelectionInit ==
  /\ service = NewService
  /\ heads \in [ProjectIds -> WorkingBranches]
  /\ refs \in [ProjectIds -> [UpstreamBranches -> {1}]]
  /\ job = IdleJob
  /\ sel = IdleSel

\* no selectProject / switchWorkingBranch is suspended
SelSettled == sel.pc \in {"idle", "returned", "threw"}

\* selectProject(projectId) up to await gitManager.getCurrentBranch(): an unknown
\* id throws before anything is assigned, a known one is assigned to
\* currentProjectId
selectProject(projectId) ==
  /\ SelSettled
  /\ IF projectId \notin ProjectIds
     THEN /\ sel' = [IdleSel EXCEPT !.pc = "threw", !.kind = "selectProject",
                                    !.arg = projectId, !.before = service]
          /\ UNCHANGED service
     ELSE /\ service' = [service EXCEPT !.currentProjectId = projectId]
          /\ sel' = [IdleSel EXCEPT !.pc = "getCurrentBranch", !.kind = "selectProject",
                                    !.arg = projectId, !.project = projectId,
                                    !.before = service]
  /\ UNCHANGED <<heads, refs, job>>
  /\ UNCHANGED <<classifyVars, serviceVars, batchVars, storeVars, notebookVars,
                 treeVars, markdownVars>>

\* getCurrentBranch settles: with the branch of the repository, and the two
\* branches are assigned, or with an error, and selectProject throws
GetCurrentBranch(ok) ==
  /\ sel.pc = "getCurrentBranch"
  /\ IF ok
     THEN /\ service' = [service EXCEPT
                           !.currentWorkingBranch = heads[sel.project],
                           !.currentUpstreamBranch =
                             IF UpstreamBranchOf(sel.project) # ""
                             THEN UpstreamBranchOf(sel.project) ELSE "upstream/main"]
          /\ sel' = [sel EXCEPT !.pc = "returned"]
     ELSE /\ sel' = [sel EXCEPT !.pc = "threw"]
          /\ UNCHANGED service
  /\ UNCHANGED <<heads, refs, job>>
  /\ UNCHANGED <<classifyVars, serviceVars, batchVars, storeVars, notebookVars,
                 treeVars, markdownVars>>

\* switchWorkingBranch(branch) up to await gitManager.checkoutBranch(branch)
SwitchBranch(branch) ==
  /\ SelSettled
  /\ service.currentProjectId # NoProject
  /\ sel' = [IdleSel EXCEPT !.pc = "checkoutBranch", !.kind = "switchWorkingBranch",
                            !.arg = branch, !.project = service.currentProjectId]
  /\ UNCHANGED <<service, heads, refs, job>>
  /\ UNCHANGED <<classifyVars, serviceVars, batchVars, storeVars, notebookVars,
                 treeVars, markdownVars>>

\* checkoutBranch settles: the repository is at the branch and
\* currentWorkingBranch is assigned, or it threw
CheckoutBranch(ok) ==
  /\ sel.pc = "checkoutBranch"
  /\ IF ok
     THEN /\ heads' = [heads EXCEPT ![sel.project] = sel.arg]
          /\ service' = [service EXCEPT !.currentWorkingBranch = sel.arg]
          /\ sel' = [sel EXCEPT !.pc = "returned"]
     ELSE /\ sel' = [sel EXCEPT !.pc = "threw"]
          /\ UNCHANGED <<service, heads>>
  /\ UNCHANGED <<refs, job>>
  /\ UNCHANGED <<classifyVars, serviceVars, batchVars, storeVars, notebookVars,
                 treeVars, markdownVars>>

\* setUpstreamBranch(branch): the assignment before its await
setUpstreamBranch(branch) ==
  /\ service.currentProjectId # NoProject
  /\ service' = [service EXCEPT !.currentUpstreamBranch = branch]
  /\ UNCHANGED <<heads, refs, job, sel>>
  /\ UNCHANGED <<classifyVars, serviceVars, batchVars, storeVars, notebookVars,
                 treeVars, markdownVars>>

\* the fetches that have brought a new version so far
Fetched ==
  { <<p, b, v>> \in ProjectIds \X UpstreamBranches \X (2..(MaxFetches + 1)) : refs[p][b] >= v }

\* fetchUpstream: git fetch moves an upstream branch of the current project to
\* a newer version of the file
fetchUpstream(branch) ==
  /\ service.currentProjectId # NoProject
  /\ Cardinality(Fetched) < MaxFetches
  /\ refs' = [refs EXCEPT ![service.currentProjectId][branch] = @ + 1]
  /\ UNCHANGED <<service, heads, job, sel>>
  /\ UNCHANGED <<classifyVars, serviceVars, batchVars, storeVars, notebookVars,
                 treeVars, markdownVars>>

\* translateSingleFile / batchTranslateFiles up to await getFileContent(
\* this.currentUpstreamBranch, filePath)
StartTranslation ==
  /\ job.pc = "idle"
  /\ service.currentProjectId # NoProject
  /\ job' = [IdleJob EXCEPT !.pc = "getFileContent",
                            !.project = service.currentProjectId,
                            !.started = service,
                            !.contentBranch = service.currentUpstreamBranch]
  /\ UNCHANGED <<service, heads, refs, sel>>
  /\ UNCHANGED <<classifyVars, serviceVars, batchVars, storeVars, notebookVars,
                 treeVars, markdownVars>>

\* getFileContent settles; getFileHash(this.currentUpstreamBranch, filePath) is
\* called
JobGetFileContent ==
  /\ job.pc = "getFileContent"
  /\ job' = [job EXCEPT !.pc = "getFileHash",
                        !.content = BlobContent(refs[job.project][job.contentBranch]),
                        !.hashBranch = service.currentUpstreamBranch]
  /\ UNCHANGED <<service, heads, refs, sel>>
  /\ UNCHANGED <<classifyVars, serviceVars, batchVars, storeVars, notebookVars,
                 treeVars, markdownVars>>

\* getFileHash settles; the translation is called with content and sourceHash
JobGetFileHash ==
  /\ job.pc = "getFileHash"
  /\ job' = [job EXCEPT !.pc = "translate",
                        !.sourceHash = BlobHash(refs[job.project][job.hashBranch])]
  /\ UNCHANGED <<service, heads, refs, sel>>
  /\ UNCHANGED <<classifyVars, serviceVars, batchVars, storeVars, notebookVars,
                 treeVars, markdownVars>>

\* translateFile / translateBatch settles; a successful result is written with
\* writeTranslationFile, a failed one ends the call
JobTranslate(success) ==
  /\ job.pc = "translate"
  /\ job' = [job EXCEPT !.pc = IF success THEN "writeTranslationFile" ELSE "returned"]
  /\ UNCHANGED <<service, heads, refs, sel>>
  /\ UNCHANGED <<classifyVars, serviceVars, batchVars, storeVars, notebookVars,
                 treeVars, markdownVars>>

\* writeTranslationFile settles; updateTranslationState or
\* batchUpdateTranslationState is called with this.currentWorkingBranch
JobWriteTranslationFile ==
  /\ job.pc = "writeTranslationFile"
  /\ job' = [job EXCEPT !.pc = "updateTranslationState",
                        !.commitBranch = service.currentWorkingBranch]
  /\ UNCHANGED <<service, heads, refs, sel>>
  /\ UNCHANGED <<classifyVars, serviceVars, batchVars, storeVars, notebookVars,
                 treeVars, markdownVars>>

\* the upsert settles and the call returns
JobUpdateTranslationState ==
  /\ job.pc = "updateTranslationState"
  /\ job' = [job EXCEPT !.pc = "returned"]
  /\ UNCHANGED <<service, heads, refs, sel>>
  /\ UNCHANGED <<classifyVars, serviceVars, batchVars, storeVars, notebookVars,
                 treeVars, markdownVars>>

SelectionNext ==
  \/ \E projectId \in ProjectIds \cup {UnknownProjectId} : selectProject(projectId)
  \/ \E ok \in BOOLEAN : GetCurrentBranch(ok)
  \/ \E branch \in WorkingBranches : SwitchBranch(branch)
  \/ \E ok \in BOOLEAN : CheckoutBranch(ok)
  \/ \E branch \in UpstreamBranches : setUpstreamBranch(branch)
  \/ \E branch \in UpstreamBranches : fetchUpstream(branch)
  \/ StartTranslation
  \/ JobGetFileContent
  \/ JobGetFileHash
  \/ \E success \in BOOLEAN : JobTranslate(success)
  \/ JobWriteTranslationFile
  \/ JobUpdateTranslationState

(***************************************************************************)
(* LLMManager.translateFile on one text document (translateMarkdown)       *)
(***************************************************************************)
\* documents translateFile hands to translateMarkdown
MarkdownTasks ==
  { [filePath |-> p, content |-> c] :
      p \in {"docs/a.md", "docs/b.md", "docs/c.md"},
      c \in {"", "# Title", "Body", "   ", "print(1)"} }

\* how client.post settles: with a completion that has text, that has the empty
\* string or null as content, with an empty choices array, with a body without
\* choices, or with an error (timeout, status other than 2xx)
MarkdownAnswers == {"text", "emptyString", "nullContent", "noChoice", "noChoices", "error"}

\* response.data.choices[0]?.message?.content
CompletionContent(content, answer) ==
  CASE answer = "text" -> TranslationOf(content)
    [] answer = "emptyString" -> ""
    [] OTHER -> Undefined

\* reading response.data.choices[0] throws, or client.post rejected
MarkdownThrows(answer) == answer \in {"noChoices", "error"}

\* the TranslationResult of translateFile: translateMarkdown returns
\* content || '' with success: true; what it throws becomes a failed result
MarkdownResult(task, answer) ==
  IF MarkdownThrows(answer)
  THEN [filePath |-> task.filePath, translatedContent |-> "", success |-> FALSE,
        error |-> "error.message"]
  ELSE [filePath |-> task.filePath,
        translatedContent |-> IF Falsy(CompletionContent(task.content, answer)) THEN ""
                              ELSE CompletionContent(task.content, answer),
        success |-> TRUE, error |-> Undefined]

MarkdownIdle ==
  /\ mdTask = [filePath |-> "docs/a.md", content |-> ""]
  /\ mdAnswer = "none"
  /\ mdResult = NoResult
  /\ mdPc = "idle"

MarkdownInit ==
  /\ mdTask \in MarkdownTasks
  /\ mdAnswer = "none"
  /\ mdResult = NoResult
  /\ mdPc = "called"

\* translateFile -> translateMarkdown up to await this.client.post(...)
translateMarkdown ==
  /\ mdPc = "called"
  /\ FileExt(mdTask.filePath) # "ipynb"
  /\ mdPc' = "await"
  /\ UNCHANGED <<mdTask, mdAnswer, mdResult>>
  /\ UNCHANGED <<classifyVars, serviceVars, batchVars, storeVars, notebookVars,
                 treeVars, selectionVars>>

\* client.post settles and translateFile returns
MarkdownResponse(answer) ==
  /\ mdPc = "await"
  /\ mdAnswer' = answer
  /\ mdResult' = MarkdownResult(mdTask, answer)
  /\ mdPc' = "returned"
  /\ UNCHANGED mdTask
  /\ UNCHANGED <<classifyVars, serviceVars, batchVars, storeVars, notebookVars,
                 treeVars, selectionVars>>

MarkdownNext ==
  \/ translateMarkdown
  \/ \E answer \in MarkdownAnswers : MarkdownResponse(answer)

(***************************************************************************)
(* Specifications                                                          *)
(***************************************************************************)
ClassifyNext == Classify

InitClassify == ClassifyInit /\ ServiceIdle /\ BatchIdle /\ StoreIdle /\ NotebookIdle
  /\ TreeIdle /\ SelectionIdle /\ MarkdownIdle

InitBatch == ClassifyIdle /\ ServiceIdle /\ BatchInit /\ StoreIdle /\ NotebookIdle
  /\ TreeIdle /\ SelectionIdle /\ MarkdownIdle

Init == ClassifyIdle /\ ServiceInit /\ BatchIdle /\ StoreIdle /\ NotebookIdle
  /\ TreeIdle /\ SelectionIdle /\ MarkdownIdle

InitStore == ClassifyIdle /\ ServiceIdle /\ BatchIdle /\ StoreInit /\ NotebookIdle
  /\ TreeIdle /\ SelectionIdle /\ MarkdownIdle

InitNotebook == ClassifyIdle /\ ServiceIdle /\ BatchIdle /\ StoreIdle /\ NotebookInit
  /\ TreeIdle /\ SelectionIdle /\ MarkdownIdle

InitTree == ClassifyIdle /\ ServiceIdle /\ BatchIdle /\ StoreIdle /\ NotebookIdle
  /\ TreeInit /\ SelectionIdle /\ MarkdownIdle

InitSelection == ClassifyIdle /\ ServiceIdle /\ BatchIdle /\ StoreIdle /\ NotebookIdle
  /\ TreeIdle /\ SelectionInit /\ MarkdownIdle

InitMarkdown == ClassifyIdle /\ ServiceIdle /\ BatchIdle /\ StoreIdle /\ NotebookIdle
  /\ TreeIdle /\ SelectionIdle /\ MarkdownInit

InitBatchStored == ClassifyIdle /\ ServiceIdle /\ BatchInitStored /\ StoreIdle
  /\ NotebookIdle /\ TreeIdle /\ SelectionIdle /\ MarkdownIdle

\* translateBatch with any stored concurrency; the event loop runs every
\* continuation that is ready, and every request is answered
SpecBatchLive == InitBatchStored /\ [][BatchNext]_vars /\ WF_vars(BatchNext)

SpecTree == InitTree /\ [][TreeNext]_vars

SpecSelection == InitSelection /\ [][SelectionNext]_vars

SpecMarkdown == InitMarkdown /\ [][MarkdownNext]_vars

SpecStore == InitStore /\ [][StoreNext]_vars

SpecResolve == InitStore /\ [][ResolveNext]_vars

SpecNotebook == InitNotebook /\ [][NotebookNext]_vars

SpecClassify == InitClassify /\ [][ClassifyNext]_vars

SpecBatch == InitBatch /\ [][BatchNext]_vars

Spec == Init /\ [][ServiceNext]_vars

(***************************************************************************)
(* Properties                                                              *)
(***************************************************************************)

\* ---- determineFileStatus (SpecClassify) -----------------------------------

\* C1: for every source hash s and recorded hash r, determineFileStatus returns
\* Untranslated when r is absent, Outdated when r is present and differs from s,
\* UpToDate when r is present and equals s, by exact string comparison.
C1_StatusByPresenceAndEquality ==
  clsStatus # "unset" =>
    clsStatus = IF clsRecorded = Undefined THEN UNTRANSLATED
                ELSE IF clsRecorded # clsSource THEN OUTDATED
                ELSE UP_TO_DATE

\* ---- the state file under the service (Spec) ------------------------------

CurrentState == readTranslationState(stateFile)

HasSuccess(o, filePath) ==
  \E n \in 1..Len(ops[o].results) :
    ops[o].results[n].filePath = filePath /\ ops[o].results[n].success

HasFailure(o, filePath) ==
  \E n \in 1..Len(ops[o].results) :
    ops[o].results[n].filePath = filePath /\ ~ops[o].results[n].success

Committed(o, filePath) ==
  /\ ops[o].pc = "returned"
  /\ \E n \in 1..Len(ops[o].updates) : ops[o].updates[n].filePath = filePath

\* C9: for any interleaving of two upserts on the working branch, once both have
\* completed the persisted mapping holds the entries written by both.
C9_NoLostUpdate ==
  (\A o \in Ops : ops[o].pc = "returned") =>
    \A o \in Ops, filePath \in Paths :
      Committed(o, filePath) => CurrentState[filePath] = UpstreamHash(filePath)

\* C10: batchUpdateTranslationState changes the persisted state in one step only,
\* its write: after that step every entry of the batch is visible, or the write
\* failed and the state file is as it was; no other step of a batch operation
\* touches the state file.
C10_BatchUpdateAtomic ==
  [][\A o \in Ops :
       (ops[o].kind = "batch" /\ ops'[o] # ops[o]) =>
         IF ops[o].pc = "writeTranslationState"
         THEN \/ /\ ops'[o].pc = "returned"
                 /\ \A n \in 1..Len(ops[o].updates) :
                      readTranslationState(stateFile')[ops[o].updates[n].filePath]
                        = ops[o].updates[n].sourceHash
              \/ /\ ops'[o].pc = "threw"
                 /\ stateFile' = stateFile
         ELSE stateFile' = stateFile]_vars

\* a batch of two entries has been written: both are visible, neither was before
C10_Witness ==
  \E o \in Ops :
    /\ ops[o].kind = "batch" /\ ops[o].pc = "returned"
    /\ Len(ops[o].updates) = 2
    /\ \A n \in 1..2 : /\ state0[ops[o].updates[n].filePath] # ops[o].updates[n].sourceHash
                       /\ CurrentState[ops[o].updates[n].filePath]
                            = ops[o].updates[n].sourceHash

\* the paths of the successful results of an invocation
SuccessfulPaths(o) == { filePath \in Paths : HasSuccess(o, filePath) }

\* sourceHash of the task an invocation prepared for a path
SourceHashOfTask(o, filePath) ==
  LET n == CHOOSE m \in 1..Len(ops[o].tasks) : ops[o].tasks[m].filePath = filePath
  IN ops[o].tasks[n].sourceHash

C12_BatchReturnsCompleteResults ==
  [][\A o \in Ops :
       (ops[o].kind = "batch" /\ ops'[o] # ops[o]) =>
         /\ ops'[o].pc = "returned" => Len(ops'[o].results) = Len(ops'[o].filePaths)
         /\ ops'[o].pc = "threw" => ops[o].pc = "writeTranslationState"]_vars

\* ---- translateBatch (SpecBatch) -------------------------------------------

RECURSIVE SumCalls(_)
SumCalls(k) == IF k = 0 THEN 0 ELSE calls[k] + SumCalls(k - 1)

\* backend requests in flight
InFlight == SumCalls(Len(tasks))

\* C3: at every moment of translateBatch the backend requests in flight are at
\* most settings.concurrency, notebooks included.
C3_InFlightAtMostConcurrency == InFlight <= concurrency

\* the wave a task belongs to, counted from 0
WaveOf(k) == (k - 1) \div concurrency

\* C4: a task of a later wave is started only when every task of every earlier
\* wave is done, has its result, and that result is in results.
C4_WavesSequential ==
  \A j, k \in 1..Len(tasks) :
    (WaveOf(j) < WaveOf(k) /\ taskState[k] # "pending") =>
      /\ taskState[j] = "done"
      /\ batchResults[j] # NoResult
      /\ j <= Len(results) /\ results[j] = batchResults[j]

\* a task of the second wave is running after a first wave of two tasks
C4_Witness ==
  \E k \in 1..Len(tasks) :
    concurrency = 2 /\ WaveOf(k) = 1 /\ taskState[k] = "running" /\ calls[k] > 0

CountPath(seq, filePath) == Cardinality({ n \in 1..Len(seq) : seq[n].filePath = filePath })

\* C5: translateBatch returns one result per task: as many results as tasks, and
\* every path is the path of as many results as tasks.
C5_OneResultPerTask ==
  pc = "returned" =>
    /\ Len(results) = Len(tasks)
    /\ \A k \in 1..Len(tasks) :
         CountPath(results, tasks[k].filePath) = CountPath(tasks, tasks[k].filePath)
    /\ \A n \in 1..Len(results) : CountPath(tasks, results[n].filePath) > 0

\* three tasks, some failed and some succeeded, have been returned
C5_Witness ==
  /\ pc = "returned" /\ Len(tasks) = 3
  /\ \E j, k \in 1..3 : threw[j] /\ ~threw[k]

\* C6: a task whose translation throws gets a result with success = false and an
\* error message; every task is run whatever the others do, and its result
\* depends on its own translation only.
C6_FailureIsolated ==
  pc = "returned" =>
    \A k \in 1..Len(tasks) :
      /\ taskState[k] = "done"
      /\ \E n \in 1..Len(results) :
           /\ results[n].filePath = tasks[k].filePath
           /\ results[n].success = ~threw[k]
           /\ threw[k] => results[n].error # Undefined /\ results[n].error # ""

\* the first task of a wave of two failed; its sibling and the task of the next
\* wave succeeded
C6_Witness ==
  /\ pc = "returned" /\ Len(tasks) = 3 /\ concurrency = 2
  /\ threw[1] /\ ~results[1].success
  /\ ~threw[2] /\ results[2].success
  /\ ~threw[3] /\ results[3].success

\* C7: every completed task, failed or not, has an onProgress invocation made
\* after its completion, and the completed counter never decreases from one
\* invocation to the next.
C7_ProgressAfterEveryCompletion ==
  /\ \A k \in 1..Len(tasks) :
       taskState[k] = "done" =>
         \E n \in 1..Len(progress) :
           progress[n].current = tasks[k].filePath /\ k \in progressDone[n]
  /\ \A m, n \in 1..Len(progress) :
       m < n => progress[m].completed <= progress[n].completed

\* all of three tasks are done, one of them failed, the counter reached 3
C7_Witness ==
  /\ pc = "returned" /\ Len(tasks) = 3
  /\ \E k \in 1..3 : threw[k]
  /\ progress[Len(progress)].completed = 3

TaskIndexOf(filePath) == CHOOSE k \in 1..Len(tasks) : tasks[k].filePath = filePath

\* C8 as stated: in every onProgress invocation the current path names a task
\* that has completed at that moment.
C8_CurrentNamesCompletedTask ==
  \A n \in 1..Len(progress) : TaskIndexOf(progress[n].current) \in progressDone[n]

\* C8 amended: an onProgress invocation that reports a larger completed counter
\* than the invocation before it names a task that has completed; every other
\* invocation is the one made before a task starts: it names a task that has not
\* completed and that no earlier invocation named.
C8_CurrentNamesCompletedOrStartingTask ==
  \A n \in 1..Len(progress) :
    LET before == IF n = 1 THEN 0 ELSE progress[n - 1].completed
        k == TaskIndexOf(progress[n].current)
    IN IF progress[n].completed > before
       THEN k \in progressDone[n]
       ELSE /\ k \notin progressDone[n]
            /\ \A m \in 1..(n - 1) : progress[m].current # progress[n].current

\* a task has been reported both before it started and after it completed
C8_Witness ==
  \E m, n \in 1..Len(progress) :
    /\ m < n /\ progress[m].current = progress[n].current
    /\ TaskIndexOf(progress[m].current) \notin progressDone[m]
    /\ TaskIndexOf(progress[n].current) \in progressDone[n]

\* ---- the state files under the upserts (SpecStore) --------------------------

\* C13: a call whose read or write of the state file failed ends with an
\* exception; it does not return normally.
C13_StateIOFailureIsFatal ==
  /\ call.writeFailed => call.pc = "threw"
  /\ call.readFailed => call.pc # "returned"

\* the mapping a state file holds
StateOf(f) == readTranslationState(files[f])

\* C14: an entry that a state file holds for a path is still there, with whatever
\* hash, after every step of every operation.
C14_EntriesNeverRemoved ==
  [][\A f \in StateFilePaths, filePath \in Paths :
       StateOf(f)[filePath] # Undefined => StateOf(f)'[filePath] # Undefined]_vars

\* the status a resolution on a working branch reports for a path
StatusAt(branch, filePath) ==
  determineFileStatus(sourceHashes[filePath], StateOf(StateFilePath(branch))[filePath])

\* the step is the write of an upsert on the branch that holds the path
CommitsPath(branch, filePath) ==
  /\ call.pc = "write" /\ call'.pc = "returned"
  /\ call.branch = branch
  /\ \E n \in 1..Len(call.updates) : call.updates[n].filePath = filePath

\* C15: the status of a path on a working branch changes only in the write of an
\* upsert of that path on that branch or in a change of the path's source hash;
\* it becomes UpToDate only in such a write, and goes from UpToDate to Outdated
\* only in a change of the source hash.
C15_StatusTransitions ==
  [][\A branch \in Branches, filePath \in Paths :
       LET before == StatusAt(branch, filePath)
           after == StatusAt(branch, filePath)'
           sourceChanged == sourceHashes'[filePath] # sourceHashes[filePath]
       IN after # before =>
            /\ CommitsPath(branch, filePath) \/ sourceChanged
            /\ after = UP_TO_DATE => CommitsPath(branch, filePath)
            /\ (before = UP_TO_DATE /\ after = OUTDATED) => sourceChanged]_vars

C18_StateFilePerBranch ==
  call.pc \in {"write", "returned"} =>
    writers[StateFilePath(call.branch)] \in {NoBranch, call.branch}

\* ---- resolution (SpecResolve) ------------------------------------------------

\* C17: in the result of a resolution that read the state file, a path is
\* Untranslated exactly when the state file holds no record for it.
C17_UntranslatedIffNoRecord ==
  (call.kind = "resolve" /\ call.pc = "returned" /\ ~call.readFailed) =>
    \A n \in 1..Len(call.fileInfos) :
      call.fileInfos[n].status = UNTRANSLATED
        <=> StateOf(StateFilePath(call.branch))[call.fileInfos[n].path] = Undefined

\* the mapping a resolution worked with
ResolvedState ==
  IF call.readFailed THEN EmptyState ELSE StateOf(StateFilePath(call.branch))

\* C19: getProjectFileInfos never throws once it has started on the candidate
\* paths; when it returns it has tried every candidate, and the paths resolved
\* are exactly the candidates whose source hash was there, in the order of the
\* candidates, each with the status of the source hash fetched for it against
\* its record.
C19_PathFailureSkipped ==
  call.kind = "resolve" =>
    /\ call.pc = "threw" => Len(call.fetched) = 0
    /\ call.pc = "returned" =>
         /\ Len(call.fetched) = Len(CandidateFiles)
         /\ { call.fileInfos[n].path : n \in 1..Len(call.fileInfos) }
              = { CandidateFiles[n] : n \in { m \in 1..Len(CandidateFiles) :
                                                call.fetched[m] # Undefined } }
         /\ \A m, n \in 1..Len(call.fileInfos) :
              m < n => \E a, b \in 1..Len(CandidateFiles) :
                         /\ a < b
                         /\ CandidateFiles[a] = call.fileInfos[m].path
                         /\ CandidateFiles[b] = call.fileInfos[n].path
         /\ \A n \in 1..Len(call.fileInfos) :
              \E a \in 1..Len(CandidateFiles) :
                /\ CandidateFiles[a] = call.fileInfos[n].path
                /\ call.fetched[a] = call.fileInfos[n].sourceHash
         /\ \A n \in 1..Len(call.fileInfos) :
              call.fileInfos[n].status =
                determineFileStatus(call.fileInfos[n].sourceHash,
                                    ResolvedState[call.fileInfos[n].path])
         /\ ~call.filters.present => call.result = call.fileInfos

\* the first candidate had no source hash and was skipped; the second one is in
\* the result, Outdated
C19_Witness ==
  /\ call.kind = "resolve" /\ call.pc = "returned" /\ ~call.filters.present
  /\ Len(call.fetched) = 2
  /\ call.fetched[1] = Undefined /\ call.fetched[2] # Undefined
  /\ Len(call.result) = 1
  /\ call.result[1].path = CandidateFiles[2]
  /\ call.result[1].status = OUTDATED

\* ---- translateJupyterNotebook (SpecNotebook) ---------------------------------

\* C20: when the request of a markdown cell fails, the notebook is returned with
\* success = true and as many cells as it had; the failed cell holds its
\* original text, a cell whose request was answered holds the translation, and a
\* cell without request is as it was.
C20_FailedCellKeepsOriginal ==
  (nbPc = "returned" /\ nbContent.kind = "notebook") =>
    /\ nbResult.success
    /\ Len(nbResult.cells) = Len(nbContent.cells)
    /\ \A n \in 1..Len(nbContent.cells) :
         /\ nbResult.cells[n].cell_type = nbContent.cells[n].cell_type
         /\ nbResult.cells[n].isArray = nbContent.cells[n].isArray
         /\ nbCalls[n] = "failed" => nbResult.cells[n].text = nbContent.cells[n].text
         /\ nbCalls[n] = "ok" =>
              nbResult.cells[n].text = TranslationOf(nbContent.cells[n].text)
         /\ nbCalls[n] = "none" => nbResult.cells[n] = nbContent.cells[n]

\* of three cells the request of the second failed and the request of the third
\* was answered
C20_Witness ==
  /\ nbPc = "returned" /\ nbResult.success
  /\ Len(nbContent.cells) = 3
  /\ nbCalls[2] = "failed" /\ nbCalls[3] = "ok"
  /\ nbResult.cells[2].text = nbContent.cells[2].text
  /\ nbResult.cells[3].text # nbContent.cells[3].text

\* C21: a notebook that fails to parse is translated as one whole document, and
\* translateFile reports no error for it: the result of a malformed .ipynb has
\* success = true.
C21_ParseFailureFallsBack ==
  (nbPc = "returned" /\ nbContent.kind = "malformed") =>
    /\ nbResult.success
    /\ nbResult.error = Undefined

\* ---- the events of TranslationService (Spec) ---------------------------------

\* C28: once an operation has emitted 'batch-translation-completed', or
\* 'file-translated' for a successful result, translateBatch has returned a
\* result for every task, and a resolution that reads the state file then finds
\* every file the operation translated successfully UpToDate.
C28_EventAfterCommit ==
  \A o \in Ops :
    (\/ ops[o].emitted = "batch-translation-completed"
     \/ ops[o].emitted = "file-translated" /\ ops[o].results[1].success) =>
      /\ Len(ops[o].results) = Len(ops[o].tasks)
      /\ \A n \in 1..Len(ops[o].results) :
           ops[o].results[n].success =>
             StatusOf(ops[o].results[n].filePath, readTranslationState(stateFile))
               = UP_TO_DATE

\* ---- translateBatch with a stored concurrency (SpecBatchLive) ----------------

\* C27: translateBatch returns in the end, for every task list and every stored
\* concurrency, when every request is answered.
C27_TranslateBatchReturns == <>(pc = "returned")

\* ---- buildFileTree and the filtered trees (SpecTree) -------------------------

\* the tree buildFileTree returns
BuiltTree == [roots |-> tree, nodes |-> nodeMap]

\* the nodes in the children list of node p of tree t
ChildrenOf(t, p) ==
  IF p \in DOMAIN t.nodes /\ t.nodes[p].hasChildren THEN Range(t.nodes[p].children) ELSE {}

RECURSIVE Closure(_, _)
\* the nodes S and what is beneath them
Closure(t, S) ==
  LET more == S \cup UNION { ChildrenOf(t, p) : p \in S }
  IN IF more = S THEN S ELSE Closure(t, more)

\* the nodes of tree t, and the nodes beneath node p
NodesOf(t) == Closure(t, Range(t.roots))
Beneath(t, p) == Closure(t, ChildrenOf(t, p))

\* the places of tree t a node is at: <<parent, index>>, parent <<>> for the roots
Positions(t) ==
  { <<<<>>, n>> : n \in 1..Len(t.roots) } \cup
  UNION { { <<p, n>> : n \in 1..Len(t.nodes[p].children) } :
            p \in { q \in NodesOf(t) : t.nodes[q].hasChildren } }

NodeAt(t, pos) ==
  IF pos[1] = <<>> THEN t.nodes[t.roots[pos[2]]]
  ELSE t.nodes[t.nodes[pos[1]].children[pos[2]]]

RECURSIVE JoinedNames(_, _)
\* the names of the ancestors of the node at pos and its own name, joined by '/'
JoinedNames(t, pos) ==
  IF pos[1] = <<>> THEN NodeAt(t, pos).name
  ELSE JoinedNames(t, CHOOSE up \in Positions(t) : NodeAt(t, up).path = pos[1])
         \o <<"/">> \o NodeAt(t, pos).name

\* C22: in the tree built from file infos of distinct paths, the names from the
\* root to a file node joined by '/' are the path of the file info it carries,
\* every file info of the input is carried by exactly one node, file nodes
\* carry a file info of the input and directory nodes carry none.
C22_LeavesAreTheRecords ==
  /\ trPc # "threw"
  /\ trPc \in {"returned", "shown"} =>
       /\ \A pos \in Positions(BuiltTree) :
            LET node == NodeAt(BuiltTree, pos)
            IN IF node.isFile
               THEN /\ node.fileInfo \in Range(TreeInput)
                    /\ JoinedNames(BuiltTree, pos) = node.fileInfo.path
                    /\ ~node.hasChildren
               ELSE node.fileInfo = NoFileInfo
       /\ \A fileInfo \in Range(TreeInput) :
            Cardinality({ pos \in Positions(BuiltTree) :
                            /\ NodeAt(BuiltTree, pos).isFile
                            /\ NodeAt(BuiltTree, pos).fileInfo = fileInfo }) = 1

\* three file infos, one of them two directories deep, another in the outer of
\* the two
C22_Witness ==
  /\ trPc = "returned"
  /\ Len(TreeInput) = 3
  /\ <<"d", "/", "c", "/", "a">> \in DOMAIN nodeMap
  /\ <<"d", "/", "B">> \in DOMAIN nodeMap
  /\ nodeMap[<<"d", "/", "c", "/", "a">>].isFile
  /\ nodeMap[<<"d", "/", "c">>].children = << <<"d", "/", "c", "/", "a">> >>

\* the directories a path lies in
DirPathsOf(path) ==
  { SubSeq(path, 1, n - 1) : n \in { k \in 1..Len(path) : path[k] = "/" } }

\* the file infos the filters of getFileTree let pass, and of these the ones
\* the status filter of the component lets pass
BackendPassing ==
  { fileInfo \in Range(trFileInfos) :
      (trFilters.present /\ trFilters.status # {}) => fileInfo.status \in trFilters.status }
ComponentPassing ==
  { fileInfo \in BackendPassing : statusFilter # "all" => fileInfo.status = statusFilter }

\* tree t holds the passing file infos, the directories they lie in, and
\* nothing else; each file is beneath each of its directories
FilteredTreeOf(t, passing) ==
  /\ { t.nodes[p].fileInfo : p \in { q \in NodesOf(t) : t.nodes[q].isFile } } = passing
  /\ { p \in NodesOf(t) : ~t.nodes[p].isFile } = UNION { DirPathsOf(f.path) : f \in passing }
  /\ \A p \in NodesOf(t) :
       ~t.nodes[p].isFile =>
         \E q \in Beneath(t, p) : t.nodes[q].isFile /\ t.nodes[q].fileInfo \in passing
  /\ \A f \in passing : \A d \in DirPathsOf(f.path) :
       d \in NodesOf(t) /\ f.path \in Beneath(t, d)

\* C23: the tree getFileTree returns under filters, and the tree the component
\* shows under its status filter, hold a directory exactly when a file beneath
\* it passes, and hold every passing file beneath all the directories of its
\* path.
C23_FilteredTreeKeepsNoEmptyDirectory ==
  /\ trPc \in {"returned", "shown"} => FilteredTreeOf(BuiltTree, BackendPassing)
  /\ trPc = "shown" => FilteredTreeOf(filteredFileTree, ComponentPassing)

\* the component filtered a directory out of the tree and kept another
C23_Witness ==
  /\ trPc = "shown" /\ statusFilter = UNTRANSLATED
  /\ <<"d">> \in DOMAIN nodeMap
  /\ <<"d">> \notin DOMAIN filteredFileTree.nodes
  /\ <<"e">> \in DOMAIN filteredFileTree.nodes
  /\ Len(filteredFileTree.roots) < Len(tree)

\* the lists of nodes of tree t: the roots and the children of each directory
ListsOf(t) ==
  {t.roots} \cup { t.nodes[p].children : p \in { q \in NodesOf(t) : t.nodes[q].hasChildren } }

\* C24: in the root list and in every children list of the built tree no file
\* precedes a directory, and of two directories or two files the one that
\* precedes does not follow the other under localeCompare of their names.
C24_DirectoriesFirstThenByName ==
  trPc \in {"returned", "shown"} =>
    \A list \in ListsOf(BuiltTree) : \A a, b \in 1..Len(list) :
      a < b =>
        LET x == nodeMap[list[a]]
            y == nodeMap[list[b]]
        IN /\ ~(x.isFile /\ ~y.isFile)
           /\ x.isFile = y.isFile => localeCompare(x.name, y.name) <= 0

\* a root file was added before the directory, and in the directory a file
\* before the subdirectory; both lists come out reordered
C24_Witness ==
  /\ trPc = "returned"
  /\ Len(TreeInput) = 3
  /\ TreeInput[1].path = <<"b">>
  /\ TreeInput[2].path = <<"d", "/", "B">>
  /\ TreeInput[3].path = <<"d", "/", "c", "/", "a">>
  /\ tree = << <<"d">>, <<"b">> >>
  /\ nodeMap[<<"d">>].children = << <<"d", "/", "c">>, <<"d", "/", "B">> >>

\* ---- the selection of TranslationService (SpecSelection) ---------------------

\* C25: a translation that committed passed to the upsert the working branch,
\* and to getFileContent and getFileHash the upstream branch, that were current
\* when it was invoked.
C25_CommitsToBranchesAtStart ==
  (job.pc = "returned" /\ job.commitBranch # "") =>
    /\ job.commitBranch = job.started.currentWorkingBranch
    /\ job.contentBranch = job.started.currentUpstreamBranch
    /\ job.hashBranch = job.started.currentUpstreamBranch

\* C26: the sourceHash of the task is the hash of the content of the task.
C26_HashIsOfContentSent ==
  job.sourceHash # NoHash =>
    \E version \in 1..(MaxFetches + 1) :
      job.content = BlobContent(version) /\ job.sourceHash = BlobHash(version)

\* C30: the step in which selectProject throws leaves currentProjectId,
\* currentWorkingBranch and currentUpstreamBranch as they were when it was
\* invoked.
C30_FailedSelectKeepsSelection ==
  [][(sel' # sel /\ sel'.kind = "selectProject" /\ sel'.pc = "threw") =>
       service' = sel'.before]_vars

\* ---- translateMarkdown (SpecMarkdown) ----------------------------------------

\* C29: a result with success = true for a document that is not empty has
\* translated content that is not empty.
C29_SuccessHasContent ==
  (mdPc = "returned" /\ mdResult.success /\ mdTask.content # "") =>
    mdResult.translatedContent # ""

====
